---- MODULE Spec2Model ----
(***************************************************************************)
(* Model of the hvapi object-graph traversal and remote-invocation engine. *)
(*                                                                         *)
(*   Spec / FairSpec : evaluate_invocation_result and JobWrapper.wait      *)
(*                     running against a remote job (invoke.py,            *)
(*                     classes_wrappers.py)                                *)
(*   SpecInvoke      : argument marshalling of ManagementObject.invoke     *)
(*                     (base.py)                                           *)
(*   SpecTraverse    : Node.get_node_objects and recursive_traverse        *)
(*                     (traversal.py)                                      *)
(*   SpecTraverseSteps : the same, for the properties of steps and calls   *)
(*   SpecChild       : ManagementObject.get_child (base.py)                *)
(*   SpecProps       : PropertiesHolder (base.py)                          *)
(*   SpecSelector    : PropertiesSelector (traversal.py)                   *)
(*   SpecVM          : VirtualMachine.start, stop and kill (hyperv.py)     *)
(*   SpecGroup       : VirtualMachine.apply_properties_group and           *)
(*                     HypervHost.create_machine (hyperv.py)               *)
(***************************************************************************)
EXTENDS Integers, Sequences, FiniteSets, TLC

VARIABLES
  \* ---- evaluate_invocation_result / JobWrapper.wait ----
  pc,          \* position of the calling thread
  result,      \* the result mapping (a mutable dict in the code)
  given,       \* the mapping as it was when the call was made
  ok_value,    \* argument ok_value
  job_value,   \* argument job_value
  resolved,    \* result['Job'] has been turned into a JobWrapper
  job,         \* the local job object: the last fetched snapshot, or NoJob
  remote,      \* the job as the remote side holds it
  job_state,   \* local variable job_state of wait
  reads,       \* reads of the JobState property
  reloads,     \* calls of reload()
  sleeps,      \* calls of time.sleep
  snaps,       \* JobState of every snapshot fetched so far, in order
  returned,    \* the value returned to the caller, or NoValue
  exc,         \* the exception raised to the caller
  \* ---- ManagementObject.invoke ----
  ipc,         \* position inside invoke
  formals,     \* the method's formal parameters, in order
  kwargs,      \* the named arguments
  idx,         \* index of the formal parameter treated next
  bag,         \* parameters.Properties[..].Value, values stored so far
  nstored,     \* writes into the parameter bag
  invoked,     \* calls of InvokeMethod
  submitted,   \* the parameter bag handed to InvokeMethod
  iresult,     \* transformed_result, the mapping invoke returns
  iexc,        \* the exception invoke raised
  \* ---- traversal ----
  tpc,         \* "idle" or "done"
  links,       \* per object, the ordered candidates the remote side reports
  template,    \* the traverse path: a sequence of nodes
  root,        \* the object traverse is called on
  paths,       \* the list traverse returned
  child,       \* what get_child returned
  cexc,        \* the exception get_child raised
  \* ---- PropertiesHolder and PropertiesSelector ----
  Properties,  \* management_object.Properties: the value of each name
  readonly,    \* the names whose value the store refuses to change
  remote_props,\* the object's properties as the remote side holds them
  holder_dict, \* the attributes of the PropertiesHolder instance itself
  wire,        \* the operations that reached the remote side, in order
  nops,        \* accessor operations made so far
  op,          \* the last accessor operation
  pout,        \* what the last operation returned or raised
  selprops,    \* PropertiesSelector.properties: the keyword arguments
  \* ---- VirtualMachine.start / stop / kill ----
  vpc,         \* position inside the call
  method,      \* the call made: its name and the arguments force and hard
  vm_enabled,  \* EnabledState of the machine as the remote side holds it
  component,   \* the machine's shutdown component and its OperationalStatus
  calls,       \* the remote methods invoked so far, in order
  desired_state, \* local variable desired_state
  target,      \* awaitable_state of the wait in progress
  waiter,      \* the method that called _wait_for_enabled_state
  elapsed,     \* time.time() - _start, in whole seconds
  seen_state,  \* local variable state of the state property
  loop_read,   \* the last EnabledState read by the condition of the wait loop
  final_read,  \* the EnabledState read after the wait loop
  vexc,        \* the exception the call raised
  \* ---- apply_properties_group / create_machine ----
  gpc,         \* position inside the call
  entry,       \* the method the user called
  properties_group, \* argument properties_group
  items,       \* the sorted items the loop walks
  gidx,        \* the item the loop is at
  remote_calls, \* the remote operations made so far, in order
  defined,     \* the machine DefineSystem created exists on the remote side
  gexc         \* the exception the call raised

jobVars == <<pc, result, given, ok_value, job_value, resolved, job, remote,
             job_state, reads, reloads, sleeps, snaps, returned, exc>>
invokeVars == <<ipc, formals, kwargs, idx, bag, nstored, invoked, submitted, iresult, iexc>>
travVars == <<tpc, links, template, root, paths, child, cexc>>
propVars == <<Properties, readonly, remote_props, holder_dict, wire, nops, op, pout, selprops>>
vmVars == <<vpc, method, vm_enabled, component, calls, desired_state, target, waiter,
           elapsed, seen_state, loop_read, final_read, vexc>>
groupVars == <<gpc, entry, properties_group, items, gidx, remote_calls, defined, gexc>>
vars == <<jobVars, invokeVars, travVars, propVars, vmVars, groupVars>>

-----------------------------------------------------------------------------
(* Bounds *)

\* Reads, reloads and sleeps are counted, and snapshots recorded, up to
\* MaxCount; the loop itself is not bounded.
MaxCount == 5

\* Longest list passed as a named argument.
MaxItems == 2

\* Longest traverse path.
MaxPathLen == 2

\* Most candidates one object reports.
MaxBranch == 2

\* Most accessor operations made on one PropertiesHolder.
MaxOps == 2

\* Most name=expected pairs a PropertiesSelector is built from.
MaxPairs == 2

\* Most classes in one properties group.
MaxGroup == 3

-----------------------------------------------------------------------------
(* Job protocol: data *)

NoJob == [JobState |-> "unbound", ErrorCode |-> 0, JobStatus |-> "", ErrorDescription |-> ""]
NoValue == [ReturnValue |-> "none", Job |-> "none"]
NoExc == [kind |-> "none", msg |-> <<>>]

\* Members of the return-code enumerations, as from_code yields them
\* (classes_wrappers.py names the first two; Failed stands for every other
\* member).
Codes == {"Completed_with_No_Error", "Method_Parameters_Checked_Job_Started", "Failed"}

\* Msvm_ConcreteJob_JobState members, as from_code yields them.  Starting and
\* Running are not terminal.
JobStates == {"Starting", "Running", "Completed", "Terminated", "Killed", "Exception"}

\* The states that end the wait loop.
TerminalStates == {"Completed", "Terminated", "Killed", "Exception"}

FailedStates == TerminalStates \ {"Completed"}

CleanJob(s) == [JobState |-> s, ErrorCode |-> 0, JobStatus |-> "OK", ErrorDescription |-> ""]

\* What the remote side can hold: a job that has not failed carries no error,
\* a failed one carries one of two error triples.
JobRecords ==
  {CleanJob(s) : s \in JobStates \ FailedStates}
  \cup {[JobState |-> s, ErrorCode |-> 32768, JobStatus |-> "Error", ErrorDescription |-> "Failed"] :
          s \in FailedStates}
  \cup {[JobState |-> s, ErrorCode |-> 32769, JobStatus |-> "Degraded", ErrorDescription |-> "Access Denied"] :
          s \in FailedStates}

InvocationResults == {[ReturnValue |-> c, Job |-> "job_ref"] : c \in Codes}

Bump(n) == IF n < MaxCount THEN n + 1 ELSE n

Record(s, x) == IF Len(s) < MaxCount THEN Append(s, x) ELSE s

-----------------------------------------------------------------------------
(* Job protocol: the code's decisions *)

\* evaluate_invocation_result, the two tests on return_value.
Branch_swapped(return_value, ok, jobv) ==
  IF return_value = ok THEN "job"
  ELSE IF return_value # jobv THEN "fail"
  ELSE "ok"

Branch_silent(return_value, ok, jobv) ==
  IF return_value = jobv THEN "job" ELSE "ok"

Branch(return_value, ok, jobv) ==
  IF return_value = jobv THEN "job"
  ELSE IF return_value # ok THEN "fail"
  ELSE "ok"

\* JobWrapper.wait, the while condition.
wait_continues_no_killed(state) ==
  state \notin {"Completed", "Terminated", "Exception"}

wait_continues(state) ==
  state \notin TerminalStates

\* JobWrapper.wait, the test after the loop.
wait_raises(state) ==
  state # "Completed"

\* JobWrapper.wait, the order of the loop body: the read of JobState, then
\* reload(), then the sleep, then the while test again.
loop_body_next_without_reload(step) ==
  IF step = "wait_read" THEN "wait_sleep"
  ELSE IF step = "wait_reload" THEN "wait_sleep"
  ELSE "wait_test"

loop_body_next(step) ==
  IF step = "wait_read" THEN "wait_reload"
  ELSE IF step = "wait_reload" THEN "wait_sleep"
  ELSE "wait_test"

\* JobException.__init__, the message.
JobExceptionMsg_no_description(j) ==
  <<j.ErrorCode, j.JobStatus, "">>

JobExceptionMsg(j) ==
  <<j.ErrorCode, j.JobStatus, j.ErrorDescription>>

\* evaluate_invocation_result, "return result": the mapping itself is handed back.
evaluate_return_without_job(res) ==
  [res EXCEPT !.Job = "none"]

evaluate_return(res) ==
  res

\* InvocationException, the message names return_value.name.
InvocationExceptionMsg(return_value) ==
  <<return_value>>


-----------------------------------------------------------------------------
(* invoke: values *)

\* A Python or CLR value: kind, payload, and the items of a list or array.
Val(k, v) == [kind |-> k, val |-> v, items |-> <<>>]

PyNone == Val("None", "")

\* The name is not among the named arguments.
Absent == Val("absent", "")

\* A typed CLR array, Array[elem](items).
ClrArray(elem, its) == [kind |-> "Array", val |-> elem, items |-> its]

PyList(its) == [kind |-> "list", val |-> "", items |-> its]

\* Values a caller passes where one value is expected.
Scalars == {PyNone, Val("int", "1"), Val("bool", "True"), Val("str", ""), Val("str", "a"),
            Val("mo", "vm1")}

\* Values a caller puts in a list.
ListItems == {PyNone, Val("int", "1"), Val("str", "a"), Val("mo", "vm1")}

SeqsUpTo(S, n) == UNION {[1..k -> S] : k \in 0..n}

PyValues == Scalars \cup {PyList(its) : its \in SeqsUpTo(ListItems, MaxItems)}

\* ManagementObject.GetText(2): the object's full text form.
GetText(path) == IF path = "vm1" THEN "<INSTANCE vm1>" ELSE "<INSTANCE>"

\* isinstance(value, collections.Iterable): lists, tuples and strings are.
IsIterable(v) == v.kind \in {"list", "str"}

\* Iterating a value: the items of a list, the characters of a string.
Iterate(v) ==
  IF v.kind = "list" THEN v.items
  ELSE IF v.kind = "str" /\ v.val = "a" THEN <<Val("str", "a")>>
  ELSE <<>>

Ok(v) == [ok |-> TRUE, value |-> v, err |-> NoExc]

Raise(kind, msg) == [ok |-> FALSE, value |-> PyNone, err |-> [kind |-> kind, msg |-> msg]]

\* The parameter types of System.Management.CimType the model draws from;
\* Object is one of those target_class does not know.
CimTypes == {"String", "Reference", "UInt32", "UInt16", "DateTime", "Boolean", "Object"}

\* CimTypeTransformer.target_class.
target_class(value) ==
  IF value = "String" THEN Ok("String")
  ELSE IF value = "Reference" THEN Ok("ManagementObject")
  ELSE IF value \in {"UInt32", "UInt16"} THEN Ok("int")
  ELSE IF value = "DateTime" THEN Ok("String")
  ELSE IF value = "Boolean" THEN Ok("bool")
  ELSE Raise("Exception", <<"unknown type">>)

\* ManagementObject.invoke_transform_object (the same tests, in the same
\* order, as transform_argument of invoke.py).  A Python bool is an int.
invoke_transform_object_none_converted(obj, expected_type) ==
  IF obj.kind = "mo"
    THEN IF expected_type = "String" THEN Ok(Val("String", GetText(obj.val)))
         ELSE IF expected_type = "ManagementObject" THEN Ok(obj)
         ELSE Raise("ValueError", <<"can not be transformed", expected_type>>)
  ELSE IF obj.kind \in {"str", "String"} /\ expected_type = "ManagementObject"
    THEN Ok(Val("mo", obj.val))
  ELSE IF obj.kind \in {"int", "bool"} /\ expected_type = "int" THEN Ok(obj)
  ELSE IF obj.kind = "bool" /\ expected_type = "bool" THEN Ok(obj)
  ELSE IF obj.kind \in {"str", "String"} /\ expected_type = "String"
    THEN Ok(Val("String", obj.val))
  ELSE Raise("Exception", <<"Unknown object to transform">>)

invoke_transform_object(obj, expected_type) ==
  IF obj.kind = "None" THEN Ok(PyNone)
  ELSE IF obj.kind = "mo"
    THEN IF expected_type = "String" THEN Ok(Val("String", GetText(obj.val)))
         ELSE IF expected_type = "ManagementObject" THEN Ok(obj)
         ELSE Raise("ValueError", <<"can not be transformed", expected_type>>)
  ELSE IF obj.kind \in {"str", "String"} /\ expected_type = "ManagementObject"
    THEN Ok(Val("mo", obj.val))
  ELSE IF obj.kind \in {"int", "bool"} /\ expected_type = "int" THEN Ok(obj)
  ELSE IF obj.kind = "bool" /\ expected_type = "bool" THEN Ok(obj)
  ELSE IF obj.kind \in {"str", "String"} /\ expected_type = "String"
    THEN Ok(Val("String", obj.val))
  ELSE Raise("Exception", <<"Unknown object to transform">>)

\* invoke, lines 278-281: a non-empty list of transformed items becomes a
\* typed array, an empty one becomes None.
array_value_empty_array(array_items, parameter_type) ==
  ClrArray(parameter_type, array_items)

array_value(array_items, parameter_type) ==
  IF array_items # <<>>
    THEN ClrArray(parameter_type, array_items)
    ELSE PyNone

\* invoke, line 277: the list comprehension transforms the items in order and
\* stops at the first one that raises.
transform_items_unchecked(its, parameter_type) ==
  Ok([i \in 1..Len(its) |-> invoke_transform_object(its[i], parameter_type).value])

transform_items(its, parameter_type) ==
  LET outs == [i \in 1..Len(its) |-> invoke_transform_object(its[i], parameter_type)]
      bad == {i \in 1..Len(its) : ~outs[i].ok}
  IN  IF bad # {}
        THEN outs[CHOOSE i \in bad : \A j \in bad : i <= j]
        ELSE Ok([i \in 1..Len(its) |-> outs[i].value])

\* invoke, lines 268-283: what one formal parameter becomes, or the error.
marshal_parameter_default_none(parameter, kw) ==
  LET t == target_class(parameter.Type)
      arg == IF kw[parameter.Name] = Absent THEN PyNone ELSE kw[parameter.Name]
  IN  IF ~t.ok THEN t
      ELSE IF parameter.IsArray
        THEN IF ~IsIterable(arg) THEN Ok(PyNone)
             ELSE LET array_items == transform_items(Iterate(arg), t.value)
                  IN  IF ~array_items.ok THEN array_items
                      ELSE Ok(array_value(array_items.value, t.value))
        ELSE invoke_transform_object(arg, t.value)

marshal_parameter(parameter, kw) ==
  LET t == target_class(parameter.Type)
  IN  IF ~t.ok THEN t
      ELSE IF kw[parameter.Name] = Absent
        THEN Raise("ValueError", <<"not provided", parameter.Name>>)
      ELSE IF parameter.IsArray
        THEN IF ~IsIterable(kw[parameter.Name])
               THEN Raise("ValueError", <<"must be iterable", parameter.Name>>)
               ELSE LET array_items == transform_items(Iterate(kw[parameter.Name]), t.value)
                    IN  IF ~array_items.ok THEN array_items
                        ELSE Ok(array_value(array_items.value, t.value))
        ELSE invoke_transform_object(kw[parameter.Name], t.value)

Param(n, t, a) == [Name |-> n, Type |-> t, IsArray |-> a]

\* Formal parameter lists GetMethodParameters can report: those of the
\* methods the wrappers call, and two that exercise array and unknown types.
Methods ==
  { <<Param("ResourceSettings", "String", TRUE)>>,
    <<Param("SystemSettings", "String", FALSE)>>,
    <<Param("AffectedConfiguration", "Reference", FALSE), Param("ResourceSettings", "String", TRUE)>>,
    <<Param("RequestedState", "UInt16", FALSE), Param("TimeoutPeriod", "DateTime", FALSE)>>,
    <<Param("Force", "Boolean", FALSE), Param("Reason", "String", FALSE)>>,
    <<Param("SettingData", "Reference", TRUE), Param("RequestedInformation", "UInt32", TRUE)>>,
    <<Param("Options", "Object", FALSE), Param("Reason", "String", FALSE)>> }

FormalNames(m) == {m[i].Name : i \in 1..Len(m)}

\* A keyword that matches no formal parameter of any method.
ExtraName == "Extra"

ArgNames == UNION {FormalNames(m) : m \in Methods} \cup {ExtraName}

\* Named arguments for method m: each formal given or not, and possibly Extra.
KwargsFor(m) ==
  {[n \in ArgNames |->
      IF n \in FormalNames(m) THEN f[n]
      ELSE IF n = ExtraName THEN x
      ELSE Absent] :
     f \in [FormalNames(m) -> PyValues \cup {Absent}], x \in {Absent, Val("int", "1")}}

EmptyBag == [n \in ArgNames |-> Absent]

\* The output parameters InvokeMethod hands back: ReturnValue (UInt32) and
\* Job (Reference, possibly null).
OutBags ==
  {[ReturnValue |-> Val("int", c), Job |-> j] :
     c \in {"0", "4096", "32768"}, j \in {PyNone, Val("str", "job_ref")}}

NoResult == [ReturnValue |-> Absent, Job |-> Absent]


-----------------------------------------------------------------------------
(* Traversal: nodes and recursive_traverse *)

\* Management objects of the remote graph.
Objs == {"o1", "o2", "o3"}

NoLinks == [o \in Objs |-> <<>>]

Range(s) == {s[i] : i \in 1..Len(s)}

\* Ordered candidate lists without repetition, at most MaxBranch long.
CandLists == {c \in SeqsUpTo(Objs, MaxBranch) : \A i, j \in 1..Len(c) : i # j => c[i] # c[j]}

\* Selector.is_acceptable: NullSelector accepts every object; any other
\* selector is a predicate, given by the objects it accepts.
NullSelector == [cls |-> "NullSelector", accepts |-> {}]

Selectors == {NullSelector, [cls |-> "Selector", accepts |-> {"o1", "o2"}]}

is_acceptable(selector, management_object) ==
  IF selector.cls = "NullSelector" THEN TRUE ELSE management_object \in selector.accepts

NodeKinds == {"PropertyNode", "RelatedNode", "RelationshipNode"}

Nodes == {[kind |-> k, selector |-> sel] : k \in NodeKinds, sel \in Selectors}

Templates == UNION {[1..n -> Nodes] : n \in 1..MaxPathLen}

\* PropertyNode.get_node_objects without the selector test.
PropertyNode_get_node_objects_no_selector(node, management_object) ==
  links[management_object]

\* PropertyNode.get_node_objects: every value of the property, transformed
\* to an object, is kept when the selector accepts it.
PropertyNode_get_node_objects(node, management_object) ==
  LET keep(val_item) == is_acceptable(node.selector, val_item)
  IN  SelectSeq(links[management_object], keep)

\* RelatedNode.get_node_objects without the test against the object itself.
RelatedNode_get_node_objects_with_self(node, management_object) ==
  LET keep(rel_object) == is_acceptable(node.selector, rel_object)
  IN  SelectSeq(links[management_object], keep)

\* RelatedNode.get_node_objects: the objects GetRelated reports, without the
\* object itself, filtered by the selector.
RelatedNode_get_node_objects(node, management_object) ==
  LET keep(rel_object) ==
        /\ ~(management_object = rel_object)
        /\ is_acceptable(node.selector, rel_object)
  IN  SelectSeq(links[management_object], keep)

\* RelationshipNode.get_node_objects: as RelatedNode, over GetRelationships.
RelationshipNode_get_node_objects_with_self(node, management_object) ==
  LET keep(rel_object) == is_acceptable(node.selector, rel_object)
  IN  SelectSeq(links[management_object], keep)

RelationshipNode_get_node_objects(node, management_object) ==
  LET keep(rel_object) ==
        /\ ~(management_object = rel_object)
        /\ is_acceptable(node.selector, rel_object)
  IN  SelectSeq(links[management_object], keep)

\* Node.get_node_objects, by the class of the node.
get_node_objects(node, management_object) ==
  IF node.kind = "PropertyNode" THEN PropertyNode_get_node_objects(node, management_object)
  ELSE IF node.kind = "RelatedNode" THEN RelatedNode_get_node_objects(node, management_object)
  ELSE RelationshipNode_get_node_objects(node, management_object)

RECURSIVE Flatten(_)
\* results.append over the nested loops: the lists are joined in order.
Flatten(lists) ==
  IF lists = <<>> THEN <<>> ELSE Head(lists) \o Flatten(Tail(lists))

RECURSIVE recursive_traverse(_, _)

\* recursive_traverse with "cur_res = [obj]" lost: the children alone.
recursive_traverse_no_prepend(traverse_path, parent) ==
  LET objs == get_node_objects(traverse_path[1], parent)
  IN  IF Len(traverse_path) = 1
        THEN [i \in 1..Len(objs) |-> <<objs[i]>>]
        ELSE Flatten([i \in 1..Len(objs) |-> recursive_traverse(Tail(traverse_path), objs[i])])

\* recursive_traverse (traversal.py 178-190; base.py 390-403 has the same
\* shape): one path per candidate of the last node, and for the others each
\* candidate in front of every path found below it.
recursive_traverse(traverse_path, parent) ==
  LET objs == get_node_objects(traverse_path[1], parent)
  IN  IF Len(traverse_path) = 1
        THEN [i \in 1..Len(objs) |-> <<objs[i]>>]
        ELSE Flatten([i \in 1..Len(objs) |->
               LET children == recursive_traverse(Tail(traverse_path), objs[i])
               IN  [c \in 1..Len(children) |-> <<objs[i]>> \o children[c]]])

\* What a call that hands back an object does: the object, or an exception.
Returns(o) == [value |-> o, err |-> NoExc]

Raises(kind, msg) == [value |-> "unset", err |-> [kind |-> kind, msg |-> msg]]

\* get_child without the test for more than one path.
get_child_no_ambiguity_check(traverse_result) ==
  IF traverse_result = <<>>
    THEN Raises("IndexError", <<"list index out of range">>)
    ELSE LET last == traverse_result[Len(traverse_result)]
         IN  Returns(last[Len(last)])

\* ManagementObject.get_child after traverse: more than one path is an
\* error; otherwise traverse_result[-1][-1], which has no element to take
\* when the list is empty.
get_child(traverse_result) ==
  IF Len(traverse_result) > 1
    THEN Raises("Exception", <<"Found more that one child for given path">>)
  ELSE IF traverse_result = <<>>
    THEN Raises("IndexError", <<"list index out of range">>)
  ELSE LET last == traverse_result[Len(traverse_result)]
       IN  Returns(last[Len(last)])

RECURSIVE Calls(_, _, _)

\* The calls of recursive_traverse with the recursion made on parent again
\* instead of on the candidate.
Calls_on_parent(traverse_path, parent, depth) ==
  {[path_len |-> Len(traverse_path), parent |-> parent, depth |-> depth]}
    \cup IF Len(traverse_path) = 1 THEN {}
         ELSE LET objs == get_node_objects(traverse_path[1], parent)
              IN  UNION {Calls(Tail(traverse_path), parent, depth + 1) : i \in 1..Len(objs)}

\* The calls recursive_traverse(traverse_path, parent) makes, itself
\* included: for each, the length of the path it receives, the object it
\* expands and how deep in the recursion it is.
Calls(traverse_path, parent, depth) ==
  {[path_len |-> Len(traverse_path), parent |-> parent, depth |-> depth]}
    \cup IF Len(traverse_path) = 1 THEN {}
         ELSE LET objs == get_node_objects(traverse_path[1], parent)
              IN  UNION {Calls(Tail(traverse_path), objs[i], depth + 1) : i \in 1..Len(objs)}

-----------------------------------------------------------------------------
(* PropertiesHolder and PropertiesSelector *)

\* Names are sequences of characters: Python iterates and unpacks them.
management_object_key ==
  <<"m", "a", "n", "a", "g", "e", "m", "e", "n", "t", "_", "o", "b", "j", "e", "c", "t">>

\* Property names a caller uses.
PropNames == {<<"a">>, <<"a", "b">>, <<"R", "o", "l", "e">>}

HolderKeys == PropNames \cup {management_object_key}

\* The store has no property of that name; the instance has no such attribute.
NoProperty == Val("missing", "")

PropValues == {Val("int", "0"), Val("str", "b")}

\* str(value): the text of an int or of a string; the kind is lost.
Str(v) == IF v.kind = "None" THEN "None" ELSE v.val

PyBool(b) == Val("bool", IF b THEN "True" ELSE "False")

\* management_object.Properties[key].Value: the indexer raises
\* ManagementException for a name the object does not have.
Properties_get(props, key) ==
  IF key \in DOMAIN props /\ props[key] # NoProperty
    THEN Ok(props[key])
    ELSE Raise("ManagementException", <<"Not found">>)

\* management_object.Properties[key].Value = value: refused for a name the
\* object does not have and for a read-only one; reject_kind is the exception
\* the binding raises for a read-only property.
Properties_set(props, ro, key, value, reject_kind) ==
  IF ~(key \in DOMAIN props /\ props[key] # NoProperty)
    THEN [props |-> props, err |-> [kind |-> "ManagementException", msg |-> <<"Not found">>]]
  ELSE IF key \in ro
    THEN [props |-> props, err |-> [kind |-> reject_kind, msg |-> <<"read-only">>]]
  ELSE [props |-> [props EXCEPT ![key] = value], err |-> NoExc]

\* object.__getattribute__(key) on the holder instance.
object_getattribute(dict, key) ==
  IF dict[key] # NoProperty
    THEN Ok(dict[key])
    ELSE Raise("AttributeError", <<"'PropertiesHolder' object has no attribute", key>>)

\* PropertiesHolder.__getattribute__: the property of the management object;
\* when the store raises ManagementException, the attribute of the instance.
PropertiesHolder_getattribute(props, dict, key) ==
  IF key # management_object_key /\ Properties_get(props, key).ok
    THEN Properties_get(props, key)
    ELSE object_getattribute(dict, key)

\* PropertiesHolder.__getitem__: the indexer's value, or its exception.
PropertiesHolder_getitem(props, item) == Properties_get(props, item)

\* PropertiesHolder.__setattr__ catching ManagementException only.
PropertiesHolder_setattr_no_attribute_error(props, ro, dict, key, value, reject_kind) ==
  LET w == IF key # management_object_key
             THEN Properties_set(props, ro, key, value, reject_kind)
             ELSE [props |-> props, err |-> NoExc]
  IN  IF w.err.kind = "AttributeError"
        THEN [props |-> props, dict |-> dict, err |-> w.err]
        ELSE [props |-> w.props, dict |-> [dict EXCEPT ![key] = value], err |-> NoExc]

\* PropertiesHolder.__setattr__: the write into the store, whose
\* ManagementException or AttributeError is dropped, then the attribute of
\* the instance is set.
PropertiesHolder_setattr(props, ro, dict, key, value, reject_kind) ==
  LET w == IF key # management_object_key
             THEN Properties_set(props, ro, key, value, reject_kind)
             ELSE [props |-> props, err |-> NoExc]
  IN  [props |-> w.props, dict |-> [dict EXCEPT ![key] = value], err |-> NoExc]

\* The keyword arguments of a selector, in the order given: each name once.
SelectorKwargs ==
  {kw \in SeqsUpTo([name : PropNames, expected : PropValues], MaxPairs) :
     \A i, j \in 1..Len(kw) : i # j => kw[i].name # kw[j].name}

RECURSIVE PropertiesSelector_is_acceptable(_, _)
\* PropertiesSelector.is_acceptable: the loop iterates the dict itself, so
\* each turn unpacks one key (a name) into property_name and
\* expected_value; the expected values of the dict are never read.
PropertiesSelector_is_acceptable(properties, props) ==
  IF properties = <<>> THEN Ok(PyBool(TRUE))
  ELSE LET key == Head(properties).name
       IN  IF Len(key) > 2
             THEN Raise("ValueError", <<"too many values to unpack (expected 2)">>)
           ELSE IF Len(key) < 2
             THEN Raise("ValueError", <<"not enough values to unpack (expected 2, got 1)">>)
           ELSE LET property_name == <<key[1]>>
                    expected_value == Val("str", key[2])
                    got == PropertiesHolder_getitem(props, property_name)
                IN  IF ~got.ok THEN got
                    ELSE IF Str(got.value) # Str(expected_value) THEN Ok(PyBool(FALSE))
                    ELSE PropertiesSelector_is_acceptable(Tail(properties), props)

\* The holder's own attributes after __init__.
NewHolderDict ==
  [k \in HolderKeys |-> IF k = management_object_key THEN Val("mo", "vm1") ELSE NoProperty]

NoOp == [name |-> "none", key |-> <<>>, value |-> NoProperty]

-----------------------------------------------------------------------------
(* VirtualMachine: states and decisions *)

\* hyperv.py 38, in seconds.
DEFAULT_WAIT_OP_TIMEOUT == 60

\* Members of ComputerSystem_EnabledState: the two stable states the calls
\* wait for, a third stable one, and a transitional one.
EnabledStates == {"Enabled", "Disabled", "Paused", "Starting"}

\* ComputerSystem_EnabledState.to_virtual_machine_state: transitional states
\* have no VirtualMachineState of their own.
to_virtual_machine_state(enabled_state) ==
  IF enabled_state = "Enabled" THEN "RUNNING"
  ELSE IF enabled_state = "Disabled" THEN "STOPPED"
  ELSE IF enabled_state = "Paused" THEN "PAUSED"
  ELSE "UNDEFINED"

\* ComputerSystem_RequestStateChange_RequestedState.to_ComputerSystem_EnabledState
to_ComputerSystem_EnabledState(requested_state) ==
  IF requested_state = "Running" THEN "Enabled" ELSE "Disabled"

\* What the traversal for Msvm_ShutdownComponent finds: nothing, or a
\* component with this OperationalStatus.
ShutdownComponents == {"absent", "OK", "Degraded", "Error"}

\* _get_shutdown_component taking a component of any status.
get_shutdown_component_any_status(found) ==
  IF found # "absent" THEN found ELSE "None"

\* _get_shutdown_component: the component when it is OK or Degraded.
get_shutdown_component(found) ==
  IF found \in {"OK", "Degraded"} THEN found ELSE "None"

\* start requesting the state change whatever the state is.
start_requests_always(state) == TRUE

\* start, line 260: the request is made unless the machine is running.
start_requests(state) == state # "RUNNING"

\* The condition of the loop of the state property.
state_loop_continues(state, since_start) ==
  state = "UNDEFINED" /\ since_start < DEFAULT_WAIT_OP_TIMEOUT

\* The condition of the loop of _wait_for_enabled_state.
wait_loop_continues(enabled_state, awaitable_state, since_start, timeout) ==
  enabled_state # awaitable_state /\ since_start < timeout

\* The result of _wait_for_enabled_state taken from the loop's last read.
wait_result_from_loop(read_in_loop, read_after_loop, awaitable_state) ==
  read_in_loop = awaitable_state

\* _wait_for_enabled_state, line 466: the result compares a read made after
\* the loop, not the read that ended the loop.
wait_result(read_in_loop, read_after_loop, awaitable_state) ==
  read_after_loop = awaitable_state

\* What evaluate_invocation_result makes of a remote call: it returns, or
\* raises one of its two exceptions.
CallOutcomes == {"ok", "InvocationException", "JobException"}

RequestStateChange(requested_state) == [name |-> "RequestStateChange", arg |-> requested_state]

InitiateShutdown(force) ==
  [name |-> "InitiateShutdown", arg |-> IF force THEN "Force" ELSE "NoForce"]

FailedToPut(awaitable_state) ==
  [kind |-> "Exception", msg |-> <<"Failed to put machine to", awaitable_state>>]

\* The calls a user makes.
VMCalls ==
  {[name |-> "start", force |-> FALSE, hard |-> FALSE], [name |-> "kill", force |-> FALSE, hard |-> FALSE]}
    \cup {[name |-> "stop", force |-> f, hard |-> h] : f, h \in BOOLEAN}

-----------------------------------------------------------------------------
(* VirtualMachine settings: decisions *)

\* Keys a caller puts in a properties group: the three classes of PATH_MAP
\* and one that PATH_MAP does not have.
SettingClasses ==
  {"Msvm_VirtualSystemSettingData", "Msvm_ProcessorSettingData", "Msvm_MemorySettingData",
   "Msvm_SyntheticEthernetPortSettingData"}

PATH_MAP_keys ==
  {"Msvm_ProcessorSettingData", "Msvm_MemorySettingData", "Msvm_VirtualSystemSettingData"}

RESOURCE_CLASSES == {"Msvm_ProcessorSettingData", "Msvm_MemorySettingData"}

SYSTEM_CLASSES == {"Msvm_VirtualSystemSettingData"}

\* The lookup in a priority map without entries.
CLS_MAP_PRIORITY_get_empty(cls, default) ==
  default

\* _CLS_MAP_PRIORITY.get(cls, default)
CLS_MAP_PRIORITY_get(cls, default) ==
  IF cls = "Msvm_VirtualSystemSettingData" THEN 0 ELSE default

\* The sort key of apply_properties_group, line 218.
priority(cls) == CLS_MAP_PRIORITY_get(cls, 100)

\* sorted(): x goes behind every element whose key is not greater.
InsertSorted(x, s) ==
  LET k == Cardinality({i \in 1..Len(s) : priority(s[i]) <= priority(x)})
  IN  SubSeq(s, 1, k) \o <<x>> \o SubSeq(s, k + 1, Len(s))

RECURSIVE sorted(_)
\* sorted(properties_group.items(), key=...): ascending and stable.
sorted(s) ==
  IF s = <<>> THEN <<>>
  ELSE InsertSorted(s[Len(s)], sorted(SubSeq(s, 1, Len(s) - 1)))

\* "if properties_group:" is false for None and for an empty dict.
truthy(group) == ~group.is_none /\ group.keys # <<>>

RemoteOp(name, arg) == [name |-> name, arg |-> arg]

\* apply_properties, lines 206-209: the method that submits the instance.
modify_calls(class_name) ==
  (IF class_name \in RESOURCE_CLASSES
     THEN <<RemoteOp("ModifyResourceSettings", class_name)>> ELSE <<>>)
  \o (IF class_name \in SYSTEM_CLASSES
        THEN <<RemoteOp("ModifySystemSettings", class_name)>> ELSE <<>>)

\* A properties group: None, or a dict, of which the model keeps the keys in
\* the order the dict holds them.
NoGroup == [is_none |-> TRUE, keys |-> <<>>]

DictGroup(keys) == [is_none |-> FALSE, keys |-> keys]

\* The properties groups a caller passes; the keys of a dict are distinct.
Groups ==
  {NoGroup} \cup
  {DictGroup(g) : g \in {k \in UNION {[1..n -> SettingClasses] : n \in 0..MaxGroup} :
                            \A i, j \in 1..Len(k) : i # j => k[i] # k[j]}}

-----------------------------------------------------------------------------
(* Idle values of the parts a specification does not exercise *)

JobIdle ==
  /\ pc = "idle"
  /\ result = NoValue
  /\ given = NoValue
  /\ ok_value = "none"
  /\ job_value = "none"
  /\ resolved = FALSE
  /\ job = NoJob
  /\ remote = NoJob
  /\ job_state = "unset"
  /\ reads = 0
  /\ reloads = 0
  /\ sleeps = 0
  /\ snaps = <<>>
  /\ returned = NoValue
  /\ exc = NoExc

InvokeIdle ==
  /\ ipc = "idle"
  /\ formals = <<>>
  /\ kwargs = EmptyBag
  /\ idx = 1
  /\ bag = EmptyBag
  /\ nstored = 0
  /\ invoked = 0
  /\ submitted = EmptyBag
  /\ iresult = NoResult
  /\ iexc = NoExc

TravIdle ==
  /\ tpc = "idle"
  /\ links = NoLinks
  /\ template = <<>>
  /\ root = "none"
  /\ paths = <<>>
  /\ child = "unset"
  /\ cexc = NoExc

PropIdle ==
  /\ Properties = [n \in PropNames |-> NoProperty]
  /\ readonly = {}
  /\ remote_props = Properties
  /\ holder_dict = NewHolderDict
  /\ wire = <<>>
  /\ nops = 0
  /\ op = NoOp
  /\ pout = Ok(PyNone)
  /\ selprops = <<>>

VMIdle ==
  /\ vpc = "idle"
  /\ method = [name |-> "none", force |-> FALSE, hard |-> FALSE]
  /\ vm_enabled = "Disabled"
  /\ component = "absent"
  /\ calls = <<>>
  /\ desired_state = "none"
  /\ target = "none"
  /\ waiter = "none"
  /\ elapsed = 0
  /\ seen_state = "none"
  /\ loop_read = "none"
  /\ final_read = "none"
  /\ vexc = NoExc

GroupIdle ==
  /\ gpc = "idle"
  /\ entry = "none"
  /\ properties_group = NoGroup
  /\ items = <<>>
  /\ gidx = 1
  /\ remote_calls = <<>>
  /\ defined = FALSE
  /\ gexc = NoExc

-----------------------------------------------------------------------------
(* Job protocol: the state machine *)

\* A caller holds an invocation result and is about to call
\* evaluate_invocation_result(result, codes_enum, ok_value, job_value).
Init ==
  /\ pc = "call"
  /\ result \in InvocationResults
  /\ given = result
  /\ ok_value \in Codes
  /\ job_value \in Codes
  /\ resolved = FALSE
  /\ job = NoJob
  /\ remote \in JobRecords
  /\ job_state = "unset"
  /\ reads = 0
  /\ reloads = 0
  /\ sleeps = 0
  /\ snaps = <<>>
  /\ returned = NoValue
  /\ exc = NoExc
  /\ InvokeIdle
  /\ TravIdle
  /\ PropIdle
  /\ VMIdle
  /\ GroupIdle

\* invoke.py 76-83, up to the call of wait().
Evaluate ==
  /\ pc = "call"
  /\ LET return_value == result.ReturnValue
         b == Branch(return_value, ok_value, job_value)
     IN  \/ /\ b = "job"
            /\ resolved' = TRUE
            /\ pc' = "wait_first"
            /\ UNCHANGED <<returned, exc>>
         \/ /\ b = "fail"
            /\ exc' = [kind |-> "InvocationException", msg |-> InvocationExceptionMsg(return_value)]
            /\ pc' = "raised"
            /\ UNCHANGED <<resolved, returned>>
         \/ /\ b = "ok"
            /\ returned' = evaluate_return(result)
            /\ pc' = "returned"
            /\ UNCHANGED <<resolved, exc>>
  /\ UNCHANGED <<result, given, ok_value, job_value, job, remote, job_state,
                 reads, reloads, sleeps, snaps>>
  /\ UNCHANGED <<invokeVars, travVars, propVars, vmVars, groupVars>>

\* classes_wrappers.py 13: the first read binds the job object to the remote
\* instance (the initial snapshot) and reads JobState from it.
WaitFirstRead ==
  /\ pc = "wait_first"
  /\ job' = remote
  /\ snaps' = Record(snaps, remote.JobState)
  /\ job_state' = remote.JobState
  /\ reads' = Bump(reads)
  /\ pc' = "wait_test"
  /\ UNCHANGED <<result, given, ok_value, job_value, resolved, remote,
                 reloads, sleeps, returned, exc>>
  /\ UNCHANGED <<invokeVars, travVars, propVars, vmVars, groupVars>>

\* classes_wrappers.py 14-15 and 19-20, and invoke.py 80: the while test;
\* when the loop is left, raise JobException or return the result.
WaitTest ==
  /\ pc = "wait_test"
  /\ IF wait_continues(job_state)
       THEN /\ pc' = "wait_read"
            /\ UNCHANGED <<returned, exc>>
       ELSE IF wait_raises(job_state)
         THEN /\ exc' = [kind |-> "JobException", msg |-> JobExceptionMsg(job)]
              /\ pc' = "raised"
              /\ UNCHANGED returned
         ELSE /\ returned' = evaluate_return(result)
              /\ pc' = "returned"
              /\ UNCHANGED exc
  /\ UNCHANGED <<result, given, ok_value, job_value, resolved, job, remote,
                 job_state, reads, reloads, sleeps, snaps>>
  /\ UNCHANGED <<invokeVars, travVars, propVars, vmVars, groupVars>>

\* classes_wrappers.py 16: read JobState of the snapshot held.
WaitRead ==
  /\ pc = "wait_read"
  /\ job_state' = job.JobState
  /\ reads' = Bump(reads)
  /\ pc' = loop_body_next("wait_read")
  /\ UNCHANGED <<result, given, ok_value, job_value, resolved, job, remote,
                 reloads, sleeps, snaps, returned, exc>>
  /\ UNCHANGED <<invokeVars, travVars, propVars, vmVars, groupVars>>

\* classes_wrappers.py 17 (base.py 229-230): reload() fetches a new snapshot.
WaitReload ==
  /\ pc = "wait_reload"
  /\ job' = remote
  /\ snaps' = Record(snaps, remote.JobState)
  /\ reloads' = Bump(reloads)
  /\ pc' = loop_body_next("wait_reload")
  /\ UNCHANGED <<result, given, ok_value, job_value, resolved, remote,
                 job_state, reads, sleeps, returned, exc>>
  /\ UNCHANGED <<invokeVars, travVars, propVars, vmVars, groupVars>>

\* classes_wrappers.py 18: time.sleep(.1), then back to the while test.
WaitSleep ==
  /\ pc = "wait_sleep"
  /\ sleeps' = Bump(sleeps)
  /\ pc' = loop_body_next("wait_sleep")
  /\ UNCHANGED <<result, given, ok_value, job_value, resolved, job, remote,
                 job_state, reads, reloads, snaps, returned, exc>>
  /\ UNCHANGED <<invokeVars, travVars, propVars, vmVars, groupVars>>

\* The remote side runs the job: a job that is not terminal moves to any other
\* record, a terminal job stays as it is.  The engine only reads it.
RemoteJobStep ==
  /\ pc \in {"call", "wait_first", "wait_test", "wait_read", "wait_reload", "wait_sleep"}
  /\ remote.JobState \notin TerminalStates
  /\ \E r \in JobRecords \ {remote} : remote' = r
  /\ UNCHANGED <<pc, result, given, ok_value, job_value, resolved, job,
                 job_state, reads, reloads, sleeps, snaps, returned, exc>>
  /\ UNCHANGED <<invokeVars, travVars, propVars, vmVars, groupVars>>

\* The steps of the calling thread.
Caller ==
  \/ Evaluate
  \/ WaitFirstRead
  \/ WaitTest
  \/ WaitRead
  \/ WaitReload
  \/ WaitSleep

Next ==
  \/ Caller
  \/ RemoteJobStep

Spec == Init /\ [][Next]_vars

\* The calling thread is blocked in a synchronous call and keeps running:
\* every step of it that is enabled is eventually taken.  Nothing is assumed
\* of the remote side.
FairSpec == Init /\ [][Next]_vars /\ WF_vars(Caller)


-----------------------------------------------------------------------------
(* invoke: the state machine *)

\* invoke(method_name, **kwargs) has fetched the formal parameters
\* (base.py 266) and is about to walk them.
InitInvoke ==
  /\ ipc = "params"
  /\ formals \in Methods
  /\ kwargs \in KwargsFor(formals)
  /\ idx = 1
  /\ bag = EmptyBag
  /\ nstored = 0
  /\ invoked = 0
  /\ submitted = EmptyBag
  /\ iresult = NoResult
  /\ iexc = NoExc
  /\ JobIdle
  /\ TravIdle
  /\ PropIdle
  /\ VMIdle
  /\ GroupIdle

\* base.py 267-285, one turn of the loop: type lookup, presence check,
\* transformation, and the store into the parameter bag.
InvokeParam ==
  /\ ipc = "params"
  /\ idx <= Len(formals)
  /\ LET parameter == formals[idx]
         out == marshal_parameter(parameter, kwargs)
     IN  IF out.ok
           THEN /\ bag' = [bag EXCEPT ![parameter.Name] = out.value]
                /\ nstored' = nstored + 1
                /\ idx' = idx + 1
                /\ UNCHANGED <<ipc, iexc>>
           ELSE /\ iexc' = out.err
                /\ ipc' = "raised"
                /\ UNCHANGED <<bag, nstored, idx>>
  /\ UNCHANGED <<formals, kwargs, invoked, submitted, iresult>>
  /\ UNCHANGED <<jobVars, travVars, propVars, vmVars, groupVars>>

\* base.py 287-298: InvokeMethod with the parameter bag, then every output
\* property is transformed into transformed_result.
InvokeCall ==
  /\ ipc = "params"
  /\ idx > Len(formals)
  /\ invoked' = invoked + 1
  /\ submitted' = bag
  /\ \E out \in OutBags :
       LET rv == invoke_transform_object(out.ReturnValue, target_class("UInt32").value)
           jb == invoke_transform_object(out.Job, target_class("Reference").value)
       IN  /\ iresult' = [ReturnValue |-> rv.value, Job |-> jb.value]
           /\ ipc' = "returned"
  /\ UNCHANGED <<formals, kwargs, idx, bag, nstored, iexc>>
  /\ UNCHANGED <<jobVars, travVars, propVars, vmVars, groupVars>>

NextInvoke ==
  \/ InvokeParam
  \/ InvokeCall

SpecInvoke == InitInvoke /\ [][NextInvoke]_vars

-----------------------------------------------------------------------------
(* Traversal: the state machine *)

\* A remote graph, a traverse path and the object traverse is called on (the
\* graphs range over every shape, so one name for the root is enough).
InitTraverse ==
  /\ tpc = "idle"
  /\ links \in [Objs -> CandLists]
  /\ template \in Templates
  /\ root = "o1"
  /\ paths = <<>>
  /\ child = "unset"
  /\ cexc = NoExc
  /\ JobIdle
  /\ InvokeIdle
  /\ PropIdle
  /\ VMIdle
  /\ GroupIdle

\* ManagementObject.traverse(traverse_path) on root.
Traverse ==
  /\ tpc = "idle"
  /\ paths' = recursive_traverse(template, root)
  /\ tpc' = "done"
  /\ UNCHANGED <<links, template, root, child, cexc>>
  /\ UNCHANGED <<jobVars, invokeVars, propVars, vmVars, groupVars>>

\* ManagementObject.get_child(traverse_path) on root: the traversal, then
\* the choice of the one child.
GetChild ==
  /\ tpc = "idle"
  /\ LET traverse_result == recursive_traverse(template, root)
         out == get_child(traverse_result)
     IN  /\ paths' = traverse_result
         /\ child' = out.value
         /\ cexc' = out.err
  /\ tpc' = "child"
  /\ UNCHANGED <<links, template, root>>
  /\ UNCHANGED <<jobVars, invokeVars, propVars, vmVars, groupVars>>

NextTraverse == Traverse

SpecTraverse == InitTraverse /\ [][NextTraverse]_vars

\* The traversal again, as the specification the properties of single steps
\* and of the recursion's calls are checked under.
SpecTraverseSteps == InitTraverse /\ [][NextTraverse]_vars

\* The same graphs and traverse paths, with get_child as the call made.
NextChild == GetChild

SpecChild == InitTraverse /\ [][NextChild]_vars

-----------------------------------------------------------------------------
(* PropertiesHolder: the state machine *)

\* A management object with some properties, one of them possibly
\* read-only, and a PropertiesHolder made for it.
InitProps ==
  /\ Properties \in [PropNames -> PropValues \cup {NoProperty}]
  /\ readonly \in {{}, {<<"a">>}}
  /\ remote_props = Properties
  /\ holder_dict = NewHolderDict
  /\ wire = <<>>
  /\ nops = 0
  /\ op = NoOp
  /\ pout = Ok(PyNone)
  /\ selprops = <<>>
  /\ JobIdle
  /\ InvokeIdle
  /\ TravIdle
  /\ VMIdle
  /\ GroupIdle

\* holder.key
GetAttr ==
  /\ nops < MaxOps
  /\ \E key \in HolderKeys :
       /\ op' = [name |-> "getattr", key |-> key, value |-> NoProperty]
       /\ pout' = PropertiesHolder_getattribute(Properties, holder_dict, key)
  /\ nops' = nops + 1
  /\ UNCHANGED <<Properties, readonly, remote_props, holder_dict, wire, selprops>>
  /\ UNCHANGED <<jobVars, invokeVars, travVars, vmVars, groupVars>>

\* holder[item]
GetItem ==
  /\ nops < MaxOps
  /\ \E item \in PropNames :
       /\ op' = [name |-> "getitem", key |-> item, value |-> NoProperty]
       /\ pout' = PropertiesHolder_getitem(Properties, item)
  /\ nops' = nops + 1
  /\ UNCHANGED <<Properties, readonly, remote_props, holder_dict, wire, selprops>>
  /\ UNCHANGED <<jobVars, invokeVars, travVars, vmVars, groupVars>>

\* holder.key = value
SetAttr ==
  /\ nops < MaxOps
  /\ \E key \in PropNames, value \in PropValues,
        reject_kind \in {"ManagementException", "AttributeError"} :
       LET r == PropertiesHolder_setattr(Properties, readonly, holder_dict, key, value, reject_kind)
       IN  /\ op' = [name |-> "setattr", key |-> key, value |-> value]
           /\ Properties' = r.props
           /\ holder_dict' = r.dict
           /\ pout' = [ok |-> r.err = NoExc, value |-> PyNone, err |-> r.err]
  /\ nops' = nops + 1
  /\ UNCHANGED <<readonly, remote_props, wire, selprops>>
  /\ UNCHANGED <<jobVars, invokeVars, travVars, vmVars, groupVars>>

\* management_object.properties: every access makes a new holder.
NewHolder ==
  /\ holder_dict # NewHolderDict
  /\ holder_dict' = NewHolderDict
  /\ op' = [name |-> "properties", key |-> <<>>, value |-> NoProperty]
  /\ pout' = Ok(PyNone)
  /\ UNCHANGED <<Properties, readonly, remote_props, wire, nops, selprops>>
  /\ UNCHANGED <<jobVars, invokeVars, travVars, vmVars, groupVars>>

\* The invocation layer sends the object as it stands locally
\* (ModifyResourceSettings / ModifySystemSettings in apply_properties).
Commit ==
  /\ nops < MaxOps
  /\ op' = [name |-> "commit", key |-> <<>>, value |-> NoProperty]
  /\ pout' = Ok(PyNone)
  /\ remote_props' = Properties
  /\ wire' = Append(wire, "InvokeMethod")
  /\ nops' = nops + 1
  /\ UNCHANGED <<Properties, readonly, holder_dict, selprops>>
  /\ UNCHANGED <<jobVars, invokeVars, travVars, vmVars, groupVars>>

NextProps ==
  \/ GetAttr
  \/ GetItem
  \/ SetAttr
  \/ NewHolder
  \/ Commit

SpecProps == InitProps /\ [][NextProps]_vars

-----------------------------------------------------------------------------
(* PropertiesSelector: the state machine *)

\* A selector built from keyword arguments, and an object to test.
InitSelector ==
  /\ Properties \in [PropNames -> PropValues \cup {NoProperty}]
  /\ readonly = {}
  /\ remote_props = Properties
  /\ holder_dict = NewHolderDict
  /\ wire = <<>>
  /\ nops = 0
  /\ op = NoOp
  /\ pout = Ok(PyNone)
  /\ selprops \in SelectorKwargs
  /\ JobIdle
  /\ InvokeIdle
  /\ TravIdle
  /\ VMIdle
  /\ GroupIdle

\* selector.is_acceptable(management_object)
IsAcceptable ==
  /\ nops = 0
  /\ op' = [name |-> "is_acceptable", key |-> <<>>, value |-> NoProperty]
  /\ pout' = PropertiesSelector_is_acceptable(selprops, Properties)
  /\ nops' = 1
  /\ UNCHANGED <<Properties, readonly, remote_props, holder_dict, wire, selprops>>
  /\ UNCHANGED <<jobVars, invokeVars, travVars, vmVars, groupVars>>

NextSelector == IsAcceptable

SpecSelector == InitSelector /\ [][NextSelector]_vars

-----------------------------------------------------------------------------
(* VirtualMachine: the state machine *)

\* A machine in some state, with or without a shutdown component, and a
\* caller about to make one call.
InitVM ==
  /\ vpc = "entry"
  /\ method \in VMCalls
  /\ vm_enabled \in EnabledStates
  /\ component \in ShutdownComponents
  /\ calls = <<>>
  /\ desired_state = "none"
  /\ target = "none"
  /\ waiter = "none"
  /\ elapsed = 0
  /\ seen_state = "none"
  /\ loop_read = "none"
  /\ final_read = "none"
  /\ vexc = NoExc
  /\ JobIdle
  /\ InvokeIdle
  /\ TravIdle
  /\ PropIdle
  /\ GroupIdle

\* start, line 260, and state, lines 249-250: the first read of the state.
StartReadState ==
  /\ vpc = "entry"
  /\ method.name = "start"
  /\ elapsed' = 0
  /\ seen_state' = to_virtual_machine_state(vm_enabled)
  /\ vpc' = "state_test"
  /\ UNCHANGED <<method, vm_enabled, component, calls, desired_state, target, waiter,
                 loop_read, final_read, vexc>>
  /\ UNCHANGED <<jobVars, invokeVars, travVars, propVars, groupVars>>

\* state, lines 251-254: one more read and a sleep of 0.1 s while the state
\* is UNDEFINED and the time is not over; else start, lines 260-269, goes on
\* with the state returned.
StateTest ==
  /\ vpc = "state_test"
  /\ IF state_loop_continues(seen_state, elapsed)
       THEN /\ seen_state' = to_virtual_machine_state(vm_enabled)
            /\ elapsed' \in {elapsed, elapsed + 1}
            /\ UNCHANGED <<vpc, desired_state>>
       ELSE /\ IF start_requests(seen_state)
                 THEN vpc' = "request" /\ desired_state' = "Running"
                 ELSE vpc' = "returned" /\ UNCHANGED desired_state
            /\ UNCHANGED <<seen_state, elapsed>>
  /\ UNCHANGED <<method, vm_enabled, component, calls, target, waiter, loop_read, final_read, vexc>>
  /\ UNCHANGED <<jobVars, invokeVars, travVars, propVars, groupVars>>

\* stop, lines 279-292, up to the first remote call.
StopEntry ==
  /\ vpc = "entry"
  /\ method.name = "stop"
  /\ desired_state' = "Off"
  /\ IF ~method.hard /\ get_shutdown_component(component) # "None"
       THEN vpc' = "shutdown"
       ELSE vpc' = "request"
  /\ UNCHANGED <<method, vm_enabled, component, calls, target, waiter, elapsed, seen_state,
                 loop_read, final_read, vexc>>
  /\ UNCHANGED <<jobVars, invokeVars, travVars, propVars, groupVars>>

\* kill, lines 299-300.
KillEntry ==
  /\ vpc = "entry"
  /\ method.name = "kill"
  /\ desired_state' = "Off"
  /\ vpc' = "request"
  /\ UNCHANGED <<method, vm_enabled, component, calls, target, waiter, elapsed, seen_state,
                 loop_read, final_read, vexc>>
  /\ UNCHANGED <<jobVars, invokeVars, travVars, propVars, groupVars>>

\* The wait begins: _wait_for_enabled_state, line 463.
BeginWait(who, awaitable_state) ==
  /\ waiter' = who
  /\ target' = awaitable_state
  /\ elapsed' = 0
  /\ vpc' = "wait_test"
  /\ UNCHANGED vexc

\* The remote call raised: the exception leaves the method.
Propagate(outcome) ==
  /\ vexc' = [kind |-> outcome, msg |-> <<>>]
  /\ vpc' = "raised"
  /\ UNCHANGED <<waiter, target, elapsed>>

\* stop catching what InitiateShutdown raises and going on to kill.
InitiateShutdownRaised_caught(outcome) ==
  /\ vpc' = "request"
  /\ UNCHANGED <<vexc, waiter, target, elapsed>>

\* stop, line 284: the call is in no try block, so what it raises leaves stop.
InitiateShutdownRaised(outcome) ==
  Propagate(outcome)

\* self.RequestStateChange(desired_state) in start (line 264) and in kill
\* (line 301), then the start of the wait.
Request ==
  /\ vpc = "request"
  /\ calls' = Append(calls, RequestStateChange(desired_state))
  /\ \E outcome \in CallOutcomes :
       IF outcome = "ok"
         THEN BeginWait(IF method.name = "start" THEN "start" ELSE "kill",
                        to_ComputerSystem_EnabledState(desired_state))
         ELSE Propagate(outcome)
  /\ UNCHANGED <<method, vm_enabled, component, desired_state, seen_state, loop_read, final_read>>
  /\ UNCHANGED <<jobVars, invokeVars, travVars, propVars, groupVars>>

\* shutdown_component.InitiateShutdown(force, "hvapi shutdown"), line 284,
\* then the start of the wait.
Shutdown ==
  /\ vpc = "shutdown"
  /\ calls' = Append(calls, InitiateShutdown(method.force))
  /\ \E outcome \in CallOutcomes :
       IF outcome = "ok"
         THEN BeginWait("stop", to_ComputerSystem_EnabledState(desired_state))
         ELSE InitiateShutdownRaised(outcome)
  /\ UNCHANGED <<method, vm_enabled, component, desired_state, seen_state, loop_read, final_read>>
  /\ UNCHANGED <<jobVars, invokeVars, travVars, propVars, groupVars>>

\* _wait_for_enabled_state, lines 464-465: the condition re-fetches the
\* machine and reads EnabledState; then a sleep of 1 s, or the loop ends.
WaitEnabledTest ==
  /\ vpc = "wait_test"
  /\ loop_read' = vm_enabled
  /\ IF wait_loop_continues(vm_enabled, target, elapsed, DEFAULT_WAIT_OP_TIMEOUT)
       THEN elapsed' = elapsed + 1 /\ UNCHANGED vpc
       ELSE vpc' = "wait_final" /\ UNCHANGED elapsed
  /\ UNCHANGED <<method, vm_enabled, component, calls, desired_state, target, waiter,
                 seen_state, final_read, vexc>>
  /\ UNCHANGED <<jobVars, invokeVars, travVars, propVars, groupVars>>

\* _wait_for_enabled_state, line 466: one more read decides the result, and
\* the caller acts on it: start (265-266) and kill (302-303) raise on
\* False, stop (285-287) goes on to kill.
WaitEnabledFinal ==
  /\ vpc = "wait_final"
  /\ final_read' = vm_enabled
  /\ IF wait_result(loop_read, vm_enabled, target)
       THEN vpc' = "returned" /\ UNCHANGED vexc
       ELSE IF waiter = "stop"
         THEN vpc' = "request" /\ UNCHANGED vexc
         ELSE vpc' = "raised" /\ vexc' = FailedToPut(target)
  /\ UNCHANGED <<method, vm_enabled, component, calls, desired_state, target, waiter,
                 elapsed, seen_state, loop_read>>
  /\ UNCHANGED <<jobVars, invokeVars, travVars, propVars, groupVars>>

\* The machine changes state on the remote side while a call is under way.
VMStep ==
  /\ vpc \notin {"returned", "raised"}
  /\ vm_enabled' \in EnabledStates \ {vm_enabled}
  /\ UNCHANGED <<vpc, method, component, calls, desired_state, target, waiter, elapsed,
                 seen_state, loop_read, final_read, vexc>>
  /\ UNCHANGED <<jobVars, invokeVars, travVars, propVars, groupVars>>

NextVM ==
  \/ StartReadState
  \/ StateTest
  \/ StopEntry
  \/ KillEntry
  \/ Request
  \/ Shutdown
  \/ WaitEnabledTest
  \/ WaitEnabledFinal
  \/ VMStep

SpecVM == InitVM /\ [][NextVM]_vars

-----------------------------------------------------------------------------
(* apply_properties_group and create_machine: the state machine *)

\* A caller about to call vm.apply_properties_group(properties_group) on an
\* existing machine, or host.create_machine(name, properties_group).
InitGroup ==
  /\ entry \in {"apply_properties_group", "create_machine"}
  /\ gpc = IF entry = "create_machine" THEN "create" ELSE "group"
  /\ properties_group \in Groups
  /\ items = <<>>
  /\ gidx = 1
  /\ remote_calls = <<>>
  /\ defined = FALSE
  /\ gexc = NoExc
  /\ JobIdle
  /\ InvokeIdle
  /\ TravIdle
  /\ PropIdle
  /\ VMIdle

\* An exception leaves apply_properties, apply_properties_group and, under
\* create_machine, create_machine, which then destroys what it defined.
GroupRaised_with_rollback(err, ops) ==
  /\ gexc' = err
  /\ gpc' = "raised"
  /\ IF defined
       THEN /\ remote_calls' = remote_calls \o ops \o <<RemoteOp("DestroySystem", "vm")>>
            /\ defined' = FALSE
       ELSE /\ remote_calls' = remote_calls \o ops
            /\ UNCHANGED defined

\* An exception leaves apply_properties, apply_properties_group (217-219)
\* and create_machine (551): none of them has a try block.
GroupRaised(err, ops) ==
  /\ gexc' = err
  /\ gpc' = "raised"
  /\ remote_calls' = remote_calls \o ops
  /\ UNCHANGED defined

\* create_machine, lines 545-550: the management service is fetched, a
\* setting-data instance is made and named, DefineSystem is invoked and the
\* resulting system is wrapped.
CreateMachine ==
  /\ gpc = "create"
  /\ LET ops == <<RemoteOp("query_one", "Msvm_VirtualSystemManagementService"),
                  RemoteOp("cls_instance", "Msvm_VirtualSystemSettingData"),
                  RemoteOp("DefineSystem", "Msvm_VirtualSystemSettingData")>>
     IN  \E outcome \in CallOutcomes :
           IF outcome = "ok"
             THEN /\ remote_calls' = remote_calls \o ops
                  /\ defined' = TRUE
                  /\ gpc' = "group"
                  /\ UNCHANGED gexc
             ELSE GroupRaised([kind |-> outcome, msg |-> <<>>], ops)
  /\ UNCHANGED <<entry, properties_group, items, gidx>>
  /\ UNCHANGED <<jobVars, invokeVars, travVars, propVars, vmVars>>

\* apply_properties_group, lines 217-218: the test of the group and the sort.
GroupBegin ==
  /\ gpc = "group"
  /\ IF truthy(properties_group)
       THEN /\ items' = sorted(properties_group.keys)
            /\ gpc' = "apply"
       ELSE /\ gpc' = "returned"
            /\ UNCHANGED items
  /\ UNCHANGED <<entry, properties_group, gidx, remote_calls, defined, gexc>>
  /\ UNCHANGED <<jobVars, invokeVars, travVars, propVars, vmVars>>

\* One turn of the loop, line 219: apply_properties (202-209) for the item.
\* PATH_MAP is indexed after the management service is fetched; the first
\* path of the traversal is indexed whether or not there is one; setting the
\* properties makes no remote call and never raises (base.py 197-205).
ApplyProperties ==
  /\ gpc = "apply"
  /\ gidx <= Len(items)
  /\ LET class_name == items[gidx]
         fetched == <<RemoteOp("query_one", "Msvm_VirtualSystemManagementService")>>
         traversed == fetched \o <<RemoteOp("traverse", class_name)>>
     IN  IF class_name \notin PATH_MAP_keys
           THEN /\ GroupRaised([kind |-> "KeyError", msg |-> <<class_name>>], fetched)
                /\ UNCHANGED gidx
           ELSE \E found \in BOOLEAN, outcome \in CallOutcomes :
                  IF ~found
                    THEN /\ GroupRaised([kind |-> "IndexError", msg |-> <<class_name>>], traversed)
                         /\ UNCHANGED gidx
                  ELSE IF outcome # "ok"
                    THEN /\ GroupRaised([kind |-> outcome, msg |-> <<>>],
                                        traversed \o modify_calls(class_name))
                         /\ UNCHANGED gidx
                  ELSE /\ remote_calls' = remote_calls \o traversed \o modify_calls(class_name)
                       /\ gidx' = gidx + 1
                       /\ gpc' = IF gidx = Len(items) THEN "returned" ELSE "apply"
                       /\ UNCHANGED <<defined, gexc>>
  /\ UNCHANGED <<entry, properties_group, items>>
  /\ UNCHANGED <<jobVars, invokeVars, travVars, propVars, vmVars>>

NextGroup ==
  \/ CreateMachine
  \/ GroupBegin
  \/ ApplyProperties

SpecGroup == InitGroup /\ [][NextGroup]_vars

-----------------------------------------------------------------------------
(* Job protocol: properties *)

WaitPcs == {"wait_first", "wait_test", "wait_read", "wait_reload", "wait_sleep"}

Exited == {"returned", "raised"}

\* The job was Running on the initial snapshot, Running after the first
\* re-fetch and Completed after the second.
RunningRunningCompleted ==
  /\ Len(snaps) >= 3
  /\ snaps[1] = "Running"
  /\ snaps[2] = "Running"
  /\ snaps[3] = "Completed"

\* C1: with a return code equal to job_value and a job that is Running on the
\* initial snapshot, Running after the first re-fetch and Completed after the
\* second, evaluate_invocation_result returns the original result and wait has
\* read JobState exactly three times.
C1_ThreePollsThreeReads ==
  (resolved /\ pc \in Exited /\ RunningRunningCompleted)
    => (pc = "returned" /\ returned = given /\ reads = 3)

\* What the code does in the scenario of C1: the result is returned, after
\* four reads and three re-fetches.
C1_ScenarioAsCoded ==
  (resolved /\ pc \in Exited /\ RunningRunningCompleted)
    => (pc = "returned" /\ returned = given /\ reads = 4 /\ reloads = 3)

\* C2: when the return code equals job_value and the wait loop ends on
\* Terminated, Killed or Exception, the result is never returned: the call
\* fails with JobException, whose message carries the job's ErrorCode,
\* JobStatus and ErrorDescription.
C2_FailedJobRaises ==
  (resolved /\ pc \in Exited /\ job_state \in FailedStates)
    => /\ pc = "raised"
       /\ returned = NoValue
       /\ exc.kind = "JobException"
       /\ exc.msg = <<job.ErrorCode, job.JobStatus, job.ErrorDescription>>
       /\ exc.msg = <<remote.ErrorCode, remote.JobStatus, remote.ErrorDescription>>

C2_Witness ==
  /\ resolved
  /\ pc = "raised"
  /\ job_state = "Killed"
  /\ reloads >= 1
  /\ exc.msg = <<32769, "Degraded", "Access Denied">>

\* C3: when the return code equals job_value and the job is observed
\* Completed, the call returns the very mapping it was given, no entry added,
\* removed or changed.
C3_CompletedReturnsResultUnchanged ==
  (resolved /\ pc \in Exited /\ job_state = "Completed")
    => /\ pc = "returned"
       /\ returned = given
       /\ result = given
       /\ exc = NoExc

C3_Witness ==
  /\ resolved
  /\ pc = "returned"
  /\ job_state = "Completed"
  /\ reloads >= 2
  /\ returned.Job = "job_ref"

\* C4: a return code equal to ok_value and not to job_value is a synchronous
\* success: the result is returned unchanged and no job is resolved, read,
\* re-fetched or waited on.
C4_OkReturnsWithoutJob ==
  (pc # "call" /\ given.ReturnValue = ok_value /\ given.ReturnValue # job_value)
    => /\ pc = "returned"
       /\ returned = given
       /\ result = given
       /\ exc = NoExc
       /\ ~resolved
       /\ job = NoJob
       /\ job_state = "unset"
       /\ reads = 0
       /\ reloads = 0
       /\ sleeps = 0

C4_Witness ==
  /\ pc = "returned"
  /\ given.ReturnValue = ok_value
  /\ given.ReturnValue # job_value
  /\ remote.JobState = "Running"

\* C5: a return code that is neither job_value nor ok_value fails with
\* InvocationException naming that code, and no job is resolved or polled.
C5_OtherCodeRaisesInvocationException ==
  (pc # "call" /\ given.ReturnValue # job_value /\ given.ReturnValue # ok_value)
    => /\ pc = "raised"
       /\ exc = [kind |-> "InvocationException", msg |-> <<given.ReturnValue>>]
       /\ returned = NoValue
       /\ ~resolved
       /\ job = NoJob
       /\ reads = 0
       /\ reloads = 0
       /\ sleeps = 0

C5_Witness ==
  /\ pc = "raised"
  /\ exc.kind = "InvocationException"
  /\ exc.msg = <<"Failed">>
  /\ ok_value # job_value

\* C6: the wait loop has no timeout and no cancellation.  A step of the wait
\* leaves it exactly when it is the test of a job_state read as Completed,
\* Terminated, Killed or Exception; the wait has never ended while the remote
\* job is not terminal; and once the remote job is terminal the wait ends.
C6_WaitEndsIffTerminalRead ==
  /\ [][(pc \in WaitPcs /\ pc' # pc)
          => ((pc' \in Exited) <=> (pc = "wait_test" /\ job_state \in TerminalStates))]_vars
  /\ [](resolved /\ pc \in Exited => remote.JobState \in TerminalStates)
  /\ ((resolved /\ remote.JobState \in TerminalStates) ~> (pc \in Exited))

C6_Witness ==
  /\ resolved
  /\ pc \in Exited
  /\ reads = MaxCount
  /\ Len(snaps) >= 3
  /\ snaps[1] \notin TerminalStates
  /\ snaps[2] \notin TerminalStates

\* C20: between any two consecutive reads of JobState the job is fetched
\* again, so a wait that has read n times has re-fetched at least n - 1 times.
C20_ReloadBetweenReads ==
  (pc \in WaitPcs \cup {"returned", "raised"} /\ reads < MaxCount) => reads <= reloads + 1

\* What the code does: the first read inside the loop follows the initial
\* read with no re-fetch between them; from then on re-fetches and reads
\* alternate, so the reads are at most two ahead.
C20_AsCoded ==
  (pc \in WaitPcs \cup {"returned", "raised"} /\ reads < MaxCount)
    => /\ reads <= reloads + 2
       /\ (reads = 2 /\ pc = "wait_reload") => (reloads = 0 /\ Len(snaps) = 1)

\* C23: when wait has exited, it has re-fetched the job once less than it has
\* read JobState and has slept once per re-fetch: nothing was fetched or slept
\* when the initial read was terminal, and the read that ended the loop was
\* followed by a re-fetch too, so the JobException is built from a snapshot
\* fetched after the read that decided.
C23_ReloadsAreReadsMinusOne ==
  /\ (resolved /\ pc \in Exited \cup {"wait_test"} /\ reads < MaxCount)
       => /\ reads >= 1
          /\ reloads = reads - 1
          /\ sleeps = reloads
          /\ Len(snaps) = reads
          /\ job.JobState = snaps[Len(snaps)]
          /\ reads > 1 => job_state = snaps[Len(snaps) - 1]
  /\ (resolved /\ pc \in Exited /\ reads < MaxCount)
       => /\ wait_continues(snaps[1]) <=> reads > 1
          /\ pc = "raised" => exc = [kind |-> "JobException", msg |-> JobExceptionMsg(job)]

\* The deciding read saw Killed on a snapshot with one description; the
\* exception carries the description of the snapshot fetched after that read.
C23_Witness ==
  /\ resolved
  /\ pc = "raised"
  /\ reads = 3
  /\ reloads = 2
  /\ sleeps = 2
  /\ job_state = "Killed"
  /\ snaps = <<"Running", "Killed", "Killed">>

C23_WitnessInitiallyTerminal ==
  /\ resolved
  /\ pc = "raised"
  /\ reads = 1
  /\ reloads = 0
  /\ sleeps = 0

-----------------------------------------------------------------------------
(* invoke: properties *)

\* The formal parameters that the named arguments do not supply.
MissingFormals == {i \in 1..Len(formals) : kwargs[formals[i].Name] = Absent}

FirstMissing == CHOOSE i \in MissingFormals : \A j \in MissingFormals : i <= j

MissingParameterError(name) == [kind |-> "ValueError", msg |-> <<"not provided", name>>]

KnownCimTypes == {"String", "Reference", "UInt32", "UInt16", "DateTime", "Boolean"}

\* C7 as stated: if a formal parameter is absent from the named arguments,
\* invoke fails with the missing-parameter error before InvokeMethod is issued.
C7_MissingParameterError ==
  (MissingFormals # {} /\ ipc \in {"raised", "returned"})
    => /\ ipc = "raised"
       /\ iexc.kind = "ValueError"
       /\ iexc.msg[1] = "not provided"
       /\ invoked = 0

\* C7, amended: if a formal parameter is absent, invoke never issues
\* InvokeMethod and never returns; it fails at or before the first absent
\* formal parameter, and the failure is the missing-parameter error naming
\* that parameter unless an earlier formal parameter failed first or the
\* absent parameter's own type tag is unknown.
C7_MissingFailsBeforeCall ==
  (ipc # "idle" /\ MissingFormals # {})
    => /\ invoked = 0
       /\ submitted = EmptyBag
       /\ iresult = NoResult
       /\ ipc # "returned"
       /\ idx <= FirstMissing
       /\ (ipc = "raised" /\ idx = FirstMissing /\ formals[idx].Type \in KnownCimTypes)
            => iexc = MissingParameterError(formals[idx].Name)
       /\ (ipc = "raised" /\ idx = FirstMissing /\ formals[idx].Type \notin KnownCimTypes)
            => iexc = [kind |-> "Exception", msg |-> <<"unknown type">>]

C7_Witness ==
  /\ ipc = "raised"
  /\ MissingFormals = {2}
  /\ nstored = 1
  /\ iexc = MissingParameterError("ResourceSettings")
  /\ invoked = 0

\* C8: for an array-typed formal parameter, an argument that iterates to no
\* item is stored and submitted as None, a one-element argument as a typed
\* array of one element, and the two values differ.
C8_EmptyArrayIsAbsent ==
  \A i \in 1..Len(formals) :
    (ipc # "idle" /\ formals[i].IsArray /\ i < idx)
      => LET arg == kwargs[formals[i].Name]
             stored == bag[formals[i].Name]
         IN  /\ (arg.kind = "list" /\ Len(arg.items) = 0) => stored = PyNone
             /\ (arg = Val("str", "")) => stored = PyNone
             /\ (arg.kind = "list" /\ Len(arg.items) = 1)
                  => /\ stored.kind = "Array"
                     /\ Len(stored.items) = 1
                     /\ stored # PyNone
             /\ (stored = PyNone) <=> (Len(Iterate(arg)) = 0)
             /\ ipc = "returned" => submitted[formals[i].Name] = stored

C8_Witness ==
  /\ ipc = "returned"
  /\ invoked = 1
  /\ kwargs["SettingData"] = PyList(<<>>)
  /\ submitted["SettingData"] = PyNone
  /\ kwargs["RequestedInformation"] = PyList(<<Val("int", "1")>>)
  /\ submitted["RequestedInformation"] = ClrArray("int", <<Val("int", "1")>>)

\* A value of kind k was given for a formal parameter whose target class is
\* t, the parameter not being an array.
GivenFor(i, k, t) ==
  /\ ~formals[i].IsArray
  /\ kwargs[formals[i].Name].kind = k
  /\ target_class(formals[i].Type) = Ok(t)

\* Parameter i went into the parameter bag, as it was given.
Stored(i) == i < idx

PassedThrough(i) == Stored(i) /\ bag[formals[i].Name] = kwargs[formals[i].Name]

\* Parameter i is never stored, and stops invoke with the conversion error.
FailsConversion(i) ==
  /\ ~Stored(i)
  /\ (i = idx /\ ipc = "raised")
       => iexc = [kind |-> "Exception", msg |-> <<"Unknown object to transform">>]

\* The combinations of value and target class the claim names as errors.
Mismatches ==
  {<<"bool", "int">>, <<"int", "bool">>, <<"int", "String">>, <<"str", "int">>, <<"str", "bool">>}

\* C14: an integer passes only for an integer parameter and a boolean only
\* for a boolean parameter; a boolean for an integer parameter, an integer
\* for a boolean or string parameter and text for an integer or boolean
\* parameter are never stored and end invoke with the conversion error.
C14_OnlyMatchingTagPasses ==
  \A i \in 1..Len(formals) :
    /\ GivenFor(i, "int", "int") /\ Stored(i) => PassedThrough(i)
    /\ GivenFor(i, "bool", "bool") /\ Stored(i) => PassedThrough(i)
    /\ \A pair \in Mismatches : GivenFor(i, pair[1], pair[2]) => FailsConversion(i)

\* What the code does: as C14, but a boolean given for an integer parameter
\* is stored unchanged (isinstance(True, int) holds).
C14_AsCoded ==
  \A i \in 1..Len(formals) :
    /\ GivenFor(i, "int", "int") /\ Stored(i) => PassedThrough(i)
    /\ GivenFor(i, "bool", "bool") /\ Stored(i) => PassedThrough(i)
    /\ GivenFor(i, "bool", "int") /\ Stored(i) => PassedThrough(i)
    /\ GivenFor(i, "bool", "int") => ~(i = idx /\ ipc = "raised")
    /\ \A pair \in Mismatches \ {<<"bool", "int">>} :
         GivenFor(i, pair[1], pair[2]) => FailsConversion(i)

\* The ways the marshalling of formal parameter i fails.
UnknownTag(i) == formals[i].Type \notin KnownCimTypes

NotIterable(i) ==
  formals[i].IsArray /\ kwargs[formals[i].Name].kind \notin {"list", "str", "absent"}

BadElement(i) ==
  /\ ~UnknownTag(i)
  /\ LET arg == kwargs[formals[i].Name]
         t == target_class(formals[i].Type).value
         its == IF formals[i].IsArray THEN Iterate(arg) ELSE <<arg>>
     IN  /\ arg # Absent
         /\ \E k \in 1..Len(its) : ~invoke_transform_object(its[k], t).ok

MarshallingFails(i) ==
  UnknownTag(i) \/ i \in MissingFormals \/ NotIterable(i) \/ BadElement(i)

\* C24: invoke issues InvokeMethod at most once, and only when every formal
\* parameter has been checked, transformed and stored, in the order of the
\* formal parameters; a missing argument, a non-iterable for an array
\* parameter, an element that cannot be converted or an unknown type tag stops
\* invoke with no InvokeMethod; named arguments that match no formal parameter
\* are never stored or submitted.
C24_CallOnceAfterAllStored ==
  /\ invoked <= 1
  /\ nstored = idx - 1
  /\ \A i \in 1..Len(formals) : (bag[formals[i].Name] # Absent) <=> i < idx
  /\ \A i \in 1..Len(formals) : i < idx => ~MarshallingFails(i)
  /\ \A n \in ArgNames \ FormalNames(formals) : bag[n] = Absent /\ submitted[n] = Absent
  /\ invoked = 1
       => /\ ipc = "returned"
          /\ nstored = Len(formals)
          /\ submitted = bag
          /\ \A i \in 1..Len(formals) : ~MarshallingFails(i)
  /\ (\E i \in 1..Len(formals) : MarshallingFails(i))
       => /\ invoked = 0
          /\ submitted = EmptyBag
          /\ ipc # "returned"
  /\ ipc = "raised" => (invoked = 0 /\ MarshallingFails(idx))
  /\ (ipc = "params" /\ idx <= Len(formals)) => invoked = 0

\* The second item of the list cannot become a string: the first parameter
\* was stored, nothing was submitted, and the unmatched argument went nowhere.
C24_Witness ==
  /\ ipc = "raised"
  /\ invoked = 0
  /\ formals[1].Name = "AffectedConfiguration"
  /\ nstored = 1
  /\ kwargs["ResourceSettings"] = PyList(<<Val("str", "a"), Val("int", "1")>>)
  /\ kwargs[ExtraName] # Absent
  /\ bag["ResourceSettings"] = Absent
  /\ iexc = [kind |-> "Exception", msg |-> <<"Unknown object to transform">>]

C24_WitnessCalled ==
  /\ ipc = "returned"
  /\ invoked = 1
  /\ Len(formals) = 2
  /\ kwargs[ExtraName] # Absent
  /\ submitted[ExtraName] = Absent

\* The classes target_class maps a type tag to.
TargetClasses == {"String", "ManagementObject", "int", "bool"}

\* None was given for formal parameter i, whose type tag is known, and no
\* other formal parameter fails.
NoneGivenAlone(i) ==
  /\ kwargs[formals[i].Name] = PyNone
  /\ ~UnknownTag(i)
  /\ \A j \in 1..Len(formals) \ {i} : ~MarshallingFails(j)

\* C25: None is transformed to None whatever the expected type, so an
\* argument given as None passes the presence check and is submitted as None:
\* invoke does not fail on it.
C25_NoneIsSubmittedAsAbsent ==
  /\ \A t \in TargetClasses : invoke_transform_object(PyNone, t) = Ok(PyNone)
  /\ \A i \in 1..Len(formals) :
       (NoneGivenAlone(i) /\ ipc \in {"returned", "raised"})
         => /\ ipc = "returned"
            /\ submitted[formals[i].Name] = PyNone

\* C25, amended: None is transformed to None whatever the expected type, so
\* None given for a formal parameter that is not an array passes the presence
\* check, is stored and submitted as None and never fails; given for an array
\* parameter, None passes the presence check but is not iterable, and invoke
\* fails on it with the must-be-iterable error and submits nothing.  A None
\* item of a list becomes a None element of the array.
C25_ScalarNoneIsSubmittedAsAbsent ==
  /\ \A t \in TargetClasses : invoke_transform_object(PyNone, t) = Ok(PyNone)
  /\ \A i \in 1..Len(formals) :
       /\ (kwargs[formals[i].Name] = PyNone /\ ~UnknownTag(i))
            => /\ i \notin MissingFormals
               /\ formals[i].IsArray <=> MarshallingFails(i)
               /\ (i < idx) => (~formals[i].IsArray /\ bag[formals[i].Name] = PyNone)
               /\ (ipc = "raised" /\ idx = i)
                    => /\ formals[i].IsArray
                       /\ iexc = [kind |-> "ValueError",
                                  msg |-> <<"must be iterable", formals[i].Name>>]
                       /\ invoked = 0
       /\ (NoneGivenAlone(i) /\ ipc \in {"returned", "raised"})
            => IF formals[i].IsArray
                 THEN ipc = "raised" /\ idx = i /\ submitted = EmptyBag
                 ELSE ipc = "returned" /\ submitted[formals[i].Name] = PyNone
       /\ (formals[i].IsArray /\ i < idx /\ kwargs[formals[i].Name].kind = "list")
            => \A k \in 1..Len(kwargs[formals[i].Name].items) :
                 kwargs[formals[i].Name].items[k] = PyNone
                   => bag[formals[i].Name].items[k] = PyNone

\* RequestStateChange(RequestedState, TimeoutPeriod=None) went through.
C25_Witness ==
  /\ ipc = "returned"
  /\ invoked = 1
  /\ formals[1].Name = "RequestedState"
  /\ kwargs["TimeoutPeriod"] = PyNone
  /\ submitted["RequestedState"] = Val("int", "1")
  /\ submitted["TimeoutPeriod"] = PyNone

-----------------------------------------------------------------------------
(* Traversal: properties *)

\* The objects node i+1 is expanded on when nothing is removed on the way.
RECURSIVE Reached(_)
Reached(i) ==
  IF i = 0 THEN {root}
  ELSE UNION {Range(links[o]) : o \in Reached(i - 1)}

\* Every object reached at step i reports the same number of candidates.
UniformBranching ==
  \A i \in 1..Len(template) : \A o1, o2 \in Reached(i - 1) : Len(links[o1]) = Len(links[o2])

\* No candidate is rejected by a selector or dropped as the source itself.
NothingRemoved ==
  \A i \in 1..Len(template) : \A o \in Reached(i - 1) : \A k \in 1..Len(links[o]) :
    /\ is_acceptable(template[i].selector, links[o][k])
    /\ template[i].kind # "PropertyNode" => links[o][k] # o

\* b_i: the number of candidates of the objects reached at step i.
Branching(i) ==
  IF Reached(i - 1) = {} THEN 0 ELSE Len(links[CHOOSE o \in Reached(i - 1) : TRUE])

RECURSIVE BranchingProduct(_)
BranchingProduct(i) ==
  IF i = 0 THEN 1 ELSE BranchingProduct(i - 1) * Branching(i)

\* C9: when every object reached at step i has exactly b_i candidates and
\* none is removed, traverse returns exactly the product of the b_i paths,
\* each of as many elements as the traverse path has nodes.
C9_ProductOfBranching ==
  (tpc = "done" /\ UniformBranching /\ NothingRemoved)
    => /\ Len(paths) = BranchingProduct(Len(template))
       /\ \A p \in 1..Len(paths) : Len(paths[p]) = Len(template)

C9_Witness ==
  /\ tpc = "done"
  /\ UniformBranching
  /\ NothingRemoved
  /\ Len(template) = MaxPathLen
  /\ \A i \in 1..Len(template) : Branching(i) = 2
  /\ Len(paths) >= 4

\* C10: a RelatedNode or RelationshipNode never yields the object it is
\* expanded on, whatever its selector accepts; so no element such a node
\* contributes to a returned path equals the element before it.
C10_NoSelfCandidate ==
  tpc # "idle" =>
    /\ \A node \in Nodes : \A o \in Objs :
         node.kind \in {"RelatedNode", "RelationshipNode"}
           => o \notin Range(get_node_objects(node, o))
    /\ \A p \in 1..Len(paths) : \A i \in 1..Len(paths[p]) :
         template[i].kind \in {"RelatedNode", "RelationshipNode"}
           => paths[p][i] # (IF i = 1 THEN root ELSE paths[p][i - 1])

C10_Witness ==
  /\ tpc = "done"
  /\ Len(template) = 1
  /\ template[1].kind = "RelationshipNode"
  /\ Len(links[root]) = 2
  /\ root \in Range(links[root])
  /\ is_acceptable(template[1].selector, root)
  /\ Len(paths) = 1

\* C11: get_child returns the last element of the path when traverse finds
\* exactly one path, and raises the "more than one child" error when
\* traverse finds two or more.
C11_OnePathLeafManyPathsError ==
  tpc = "child" =>
    /\ Len(paths) = 1 => (cexc = NoExc /\ child = paths[1][Len(paths[1])])
    /\ Len(paths) >= 2 =>
         /\ child = "unset"
         /\ cexc = [kind |-> "Exception", msg |-> <<"Found more that one child for given path">>]

C11_Witness ==
  /\ tpc = "child"
  /\ Len(template) = 2
  /\ Len(paths) = 1
  /\ cexc = NoExc
  /\ child = paths[1][2]
  /\ child # paths[1][1]

\* C12: when traverse finds no path, get_child returns None and raises
\* nothing.
C12_NoPathReturnsNone ==
  (tpc = "child" /\ Len(paths) = 0) => (cexc = NoExc /\ child = "None")

\* o is a candidate of node expanded on parent that the selector accepts
\* (a RelatedNode or RelationshipNode never has parent itself as candidate).
AcceptedCandidate(node, parent, o) ==
  /\ o \in Range(links[parent])
  /\ node.kind # "PropertyNode" => o # parent
  /\ is_acceptable(node.selector, o)

\* The object path p[k] was expanded from.
Before(p, k) == IF k = 1 THEN root ELSE p[k - 1]

\* The complete paths of the traverse path: one accepted candidate per node,
\* each expanded on the one before.
CompletePaths ==
  {p \in [1..Len(template) -> Objs] :
     \A k \in 1..Len(template) : AcceptedCandidate(template[k], Before(p, k), p[k])}

\* The place of o among the candidates parent reports.
Position(parent, o) == CHOOSE i \in 1..Len(links[parent]) : links[parent][i] = o

\* p comes before q depth-first, left to right: at the first element where
\* they differ, p takes the candidate reported earlier.
DepthFirstBefore(p, q) ==
  \E k \in 1..Len(template) :
    /\ \A j \in 1..(k - 1) : p[j] = q[j]
    /\ p[k] # q[k]
    /\ Position(Before(p, k), p[k]) < Position(Before(q, k), q[k])

\* C13: traverse returns exactly the complete paths, each once, in
\* depth-first left-to-right order of the reported candidates; no shorter
\* path and no path through a rejected candidate.
C13_ExactlyCompletePathsInOrder ==
  tpc = "done" =>
    /\ Range(paths) = CompletePaths
    /\ \A i, j \in 1..Len(paths) : i < j => DepthFirstBefore(paths[i], paths[j])

C13_Witness ==
  /\ tpc = "done"
  /\ Len(template) = 2
  /\ Len(paths) = 3
  /\ paths[1][1] = paths[2][1]
  /\ paths[3][1] # paths[1][1]
  /\ \E o \in Range(links[paths[3][1]]) : ~is_acceptable(template[2].selector, o)

\* C21: in every path traverse returns, whatever the kinds of the nodes, no
\* element equals the one before it (the root for the first element).
C21_NoSelfLoopAnyKind ==
  tpc = "done" =>
    \A p \in 1..Len(paths) : \A k \in 1..Len(paths[p]) : paths[p][k] # Before(paths[p], k)

\* C21, amended: an element of a returned path equals the one before it only
\* where the node is a PropertyNode; RelatedNode and RelationshipNode drop
\* the object they are expanded on, a PropertyNode keeps it.
C21_SelfLoopOnlyThroughPropertyNode ==
  tpc = "done" =>
    \A p \in 1..Len(paths) : \A k \in 1..Len(paths[p]) :
      paths[p][k] = Before(paths[p], k) => template[k].kind = "PropertyNode"

C21_Witness ==
  /\ tpc = "done"
  /\ Len(template) = 2
  /\ template[1].kind = "RelatedNode"
  /\ template[2].kind = "PropertyNode"
  /\ root \in Range(links[root])
  /\ \E p \in 1..Len(paths) : paths[p][1] # root /\ paths[p][2] = paths[p][1]

\* The deepest call of the traversal made.
MaxDepth == CHOOSE d \in 1..Len(template) :
              /\ \E c \in Calls(template, root, 1) : c.depth = d
              /\ \A c \in Calls(template, root, 1) : c.depth <= d

\* C22: a traverse over a template of n nodes ends, cycles in the graph or
\* not, with a recursion exactly n deep.
C22_DepthExactlyN ==
  tpc = "done" => MaxDepth = Len(template)

\* C22, amended: every call receives a path exactly one node shorter than
\* its caller's and expands a candidate of the object its caller expanded,
\* so no call is deeper than n, whatever cycles the graph has; the depth n
\* is reached exactly when a candidate survives each of the first n - 1 nodes.
C22_DepthAtMostN ==
  tpc = "done" =>
    LET n == Len(template)
        calls_made == Calls(template, root, 1)
    IN  /\ \A c \in calls_made :
             /\ c.depth \in 1..n
             /\ c.path_len = n + 1 - c.depth
             /\ c.depth > 1 =>
                  \E b \in calls_made :
                    /\ b.depth = c.depth - 1
                    /\ c.parent \in Range(get_node_objects(template[b.depth], b.parent))
        /\ (\E c \in calls_made : c.depth = n)
             <=> (n = 1 \/ recursive_traverse(SubSeq(template, 1, n - 1), root) # <<>>)

C22_Witness ==
  /\ tpc = "done"
  /\ Len(template) = 2
  /\ links[root] = <<"o2">>
  /\ links["o2"] = <<root>>
  /\ paths = <<<<"o2", root>>>>
  /\ [path_len |-> 1, parent |-> "o2", depth |-> 2] \in Calls(template, root, 1)

-----------------------------------------------------------------------------
(* PropertiesHolder and PropertiesSelector: properties *)

\* The store reports the name as unknown.
Unknown(key) == ~Properties_get(Properties, key).ok

\* C15: an attribute-style read of a name the store reports as unknown
\* returns None and raises nothing; indexing the accessor by the same name
\* raises.
C15_AttributeReadFailsSoft ==
  /\ (op.name = "getattr" /\ op.key # management_object_key /\ Unknown(op.key))
       => pout = Ok(PyNone)
  /\ (op.name = "getitem" /\ Unknown(op.key)) => ~pout.ok

\* What the code does: the read of an unknown name raises AttributeError
\* unless the same holder instance was assigned that name before; indexing
\* raises ManagementException.
C15_AsCoded ==
  /\ (op.name = "getattr" /\ op.key # management_object_key /\ Unknown(op.key))
       => IF holder_dict[op.key] = NoProperty
            THEN ~pout.ok /\ pout.err.kind = "AttributeError"
            ELSE pout = Ok(holder_dict[op.key])
  /\ (op.name = "getitem" /\ Unknown(op.key))
       => ~pout.ok /\ pout.err.kind = "ManagementException"

\* The store refuses a write to key: unknown, or read-only.
Refused(key) == Unknown(key) \/ key \in readonly

\* C16: a set the store refuses raises nothing: the store keeps its values,
\* nothing is sent to the remote side and the remote object is unchanged.
C16_RefusedSetIsSwallowed ==
  [][(nops' = nops + 1 /\ op'.name = "setattr" /\ Refused(op'.key))
       => /\ pout'.ok
          /\ pout'.err = NoExc
          /\ Properties' = Properties
          /\ wire' = wire
          /\ remote_props' = remote_props]_vars

C16_Witness ==
  /\ op.name = "setattr"
  /\ op.key \in readonly
  /\ ~Unknown(op.key)
  /\ Properties[op.key] # op.value
  /\ pout.ok
  /\ wire = <<>>
  /\ remote_props = Properties

\* C17: a PropertiesSelector accepts an object exactly when, for every
\* name=expected pair, str of the object's property equals str of the
\* expected value.
C17_AcceptsIffAllPairsMatch ==
  (op.name = "is_acceptable" /\ \A i \in 1..Len(selprops) : ~Unknown(selprops[i].name))
    => pout = Ok(PyBool(\A i \in 1..Len(selprops) :
                          Str(Properties[selprops[i].name]) = Str(selprops[i].expected)))

\* What the code does: True without pairs; otherwise the first name is
\* unpacked, and unless it has exactly two characters that raises ValueError.
C17_AsCoded ==
  op.name = "is_acceptable" =>
    /\ selprops = <<>> => pout = Ok(PyBool(TRUE))
    /\ (selprops # <<>> /\ Len(selprops[1].name) # 2)
         => ~pout.ok /\ pout.err.kind = "ValueError"

-----------------------------------------------------------------------------
(* VirtualMachine: properties *)

VMDone == vpc \in {"returned", "raised"}

\* A remote call raised, and the exception left the method.
CallFailed == vexc.kind \in {"InvocationException", "JobException"}

\* The wait ended because the loop read the awaited state or the time was over.
WaitEndedProperly == loop_read = target \/ elapsed >= DEFAULT_WAIT_OP_TIMEOUT

\* C18: start requests Running only when the state it read is not RUNNING,
\* then waits for Enabled until it is read or DEFAULT_WAIT_OP_TIMEOUT is
\* over, and raises when the state is not Enabled at the end of the wait;
\* when the machine is already running it makes no request and returns.
C18_StartRequestsUnlessRunning ==
  method.name = "start" =>
    /\ calls # <<>> => (seen_state # "RUNNING" /\ calls = <<RequestStateChange("Running")>>)
    /\ (VMDone /\ seen_state = "RUNNING") => (calls = <<>> /\ vpc = "returned")
    /\ (VMDone /\ seen_state # "RUNNING") => calls = <<RequestStateChange("Running")>>
    /\ vpc = "wait_final" => (target = "Enabled" /\ WaitEndedProperly)
    /\ (VMDone /\ calls # <<>> /\ ~CallFailed)
         => /\ WaitEndedProperly
            /\ IF final_read = "Enabled"
                 THEN vpc = "returned"
                 ELSE vpc = "raised" /\ vexc = FailedToPut("Enabled")

C18_Witness ==
  /\ method.name = "start"
  /\ vpc = "raised"
  /\ vexc = FailedToPut("Enabled")
  /\ calls = <<RequestStateChange("Running")>>
  /\ loop_read # "Enabled"
  /\ elapsed = DEFAULT_WAIT_OP_TIMEOUT

\* The stop found a shutdown component it can use.
Graceful == ~method.hard /\ component \in {"OK", "Degraded"}

\* C19: stop with hard=False and an operational shutdown component calls
\* InitiateShutdown first, and goes on to kill (RequestStateChange Off) when
\* the wait for Disabled fails; without such a component it kills at once;
\* with hard=True it kills at once and never calls InitiateShutdown.
C19_StopGracefulThenKill ==
  method.name = "stop" =>
    /\ Len(calls) <= 2
    /\ (Graceful /\ calls # <<>>) => calls[1] = InitiateShutdown(method.force)
    /\ (Graceful /\ Len(calls) = 2) => calls[2] = RequestStateChange("Off")
    /\ (~Graceful /\ calls # <<>>) => calls = <<RequestStateChange("Off")>>
    /\ (~Graceful /\ vpc # "entry") => (vpc = "request" \/ calls # <<>>)
    /\ (waiter = "stop" /\ Len(calls) = 1 /\ vpc \notin {"wait_test", "wait_final"})
         => /\ WaitEndedProperly
            /\ IF final_read = "Disabled"
                 THEN vpc = "returned" /\ Len(calls) = 1
                 ELSE vpc = "request" /\ desired_state = "Off"

C19_Witness ==
  /\ method.name = "stop"
  /\ Graceful
  /\ calls = <<InitiateShutdown(method.force), RequestStateChange("Off")>>
  /\ vpc = "returned"
  /\ final_read = "Disabled"

\* The EnabledState that stop and kill wait for.
OffTarget == to_ComputerSystem_EnabledState("Off")

\* C26: stop and kill return only when the last EnabledState read by their
\* last wait, the read made after the loop, is the Off target; when that
\* read is anything else, the call ends with the failed-to-put exception.
C26_ReturnOnlyOnFreshOffRead ==
  method.name \in {"stop", "kill"} =>
    /\ vpc = "returned"
         => /\ final_read = OffTarget
            /\ target = OffTarget
            /\ calls # <<>>
            /\ vexc = NoExc
    /\ (VMDone /\ ~CallFailed)
         => IF final_read = OffTarget
              THEN vpc = "returned"
              ELSE /\ vpc = "raised"
                   /\ vexc = FailedToPut(OffTarget)
                   /\ waiter = "kill"
                   /\ calls[Len(calls)] = RequestStateChange("Off")
    /\ (VMDone /\ CallFailed) => vpc = "raised"

\* The loop of kill's wait gave up on time without reading Disabled, and the
\* read after the loop found the machine off.
C26_Witness ==
  /\ method.name = "kill"
  /\ vpc = "returned"
  /\ elapsed = DEFAULT_WAIT_OP_TIMEOUT
  /\ loop_read # OffTarget
  /\ final_read = OffTarget

\* The loop read Disabled, the read after it did not: kill raised.
C26_WitnessRaised ==
  /\ method.name = "stop"
  /\ vpc = "raised"
  /\ waiter = "kill"
  /\ loop_read = OffTarget
  /\ final_read # OffTarget
  /\ vexc = FailedToPut(OffTarget)

\* stop was called with hard=False.
SoftStop == method.name = "stop" /\ ~method.hard

\* stop is about to fall back to kill.
FallingBack == SoftStop /\ vpc = "request"

\* InitiateShutdown was called and raised.
ShutdownFailed ==
  /\ calls # <<>>
  /\ calls[1].name = "InitiateShutdown"
  /\ waiter = "none"
  /\ vpc # "shutdown"

\* C27: stop with hard=False falls back to kill only when the wait after
\* InitiateShutdown ran out of time or when no shutdown component was found;
\* when InitiateShutdown fails, its error leaves stop and RequestStateChange
\* is never issued.
C27_FallbackOnlyOnTimeoutOrNoComponent ==
  /\ FallingBack
       => \/ get_shutdown_component(component) = "None"
          \/ (waiter = "stop" /\ elapsed >= DEFAULT_WAIT_OP_TIMEOUT)
  /\ (SoftStop /\ ShutdownFailed)
       => /\ vpc = "raised"
          /\ CallFailed
          /\ Len(calls) = 1

\* C27, amended: stop with hard=False falls back to kill only when no
\* operational shutdown component was found, or when the wait after a
\* successful InitiateShutdown returned False, that is when the read made
\* after its loop was not Disabled: the time was over, or the loop had read
\* Disabled and the next read did not.  When InitiateShutdown fails, its
\* error leaves stop and RequestStateChange is never issued.
C27_FallbackOnlyOnFailedWaitOrNoComponent ==
  /\ FallingBack
       => \/ get_shutdown_component(component) = "None" /\ calls = <<>> /\ waiter = "none"
          \/ /\ get_shutdown_component(component) # "None"
             /\ waiter = "stop"
             /\ calls = <<InitiateShutdown(method.force)>>
             /\ final_read # OffTarget
             /\ WaitEndedProperly
  /\ (SoftStop /\ ShutdownFailed)
       => /\ vpc = "raised"
          /\ CallFailed
          /\ calls = <<InitiateShutdown(method.force)>>
  /\ (SoftStop /\ Len(calls) = 2)
       => /\ calls[2] = RequestStateChange("Off")
          /\ waiter \in {"stop", "kill"}

\* InitiateShutdown ended in a failed job: stop raised and made no other call.
C27_Witness ==
  /\ SoftStop
  /\ vpc = "raised"
  /\ vexc.kind = "JobException"
  /\ calls = <<InitiateShutdown(method.force)>>

\* The loop read Disabled before the time was over, the read after it did
\* not, and stop went on to kill.
C27_WitnessNoTimeout ==
  /\ FallingBack
  /\ waiter = "stop"
  /\ elapsed < DEFAULT_WAIT_OP_TIMEOUT
  /\ loop_read = OffTarget
  /\ final_read # OffTarget

-----------------------------------------------------------------------------
(* apply_properties_group and create_machine: properties *)

VSSD == "Msvm_VirtualSystemSettingData"

\* The remote operations create_machine makes before apply_properties_group.
CreateOps == IF entry = "create_machine" THEN 3 ELSE 0

\* The remote operations made by apply_properties_group.
GroupCalls ==
  IF Len(remote_calls) > CreateOps
    THEN SubSeq(remote_calls, CreateOps + 1, Len(remote_calls))
    ELSE <<>>

IsModify(c) == c.name \in {"ModifyResourceSettings", "ModifySystemSettings"}

\* The submissions of setting data, in the order they were made.
Modifies == SelectSeq(GroupCalls, IsModify)

\* The place of a class among the keys of the group.
KeyIndex(cls) == CHOOSE i \in 1..Len(properties_group.keys) : properties_group.keys[i] = cls

GroupDone == gpc \in {"returned", "raised"}

\* C28: apply_properties_group submits the Msvm_VirtualSystemSettingData entry
\* with ModifySystemSettings before the entry of every other class, which
\* goes with ModifyResourceSettings, whatever the order of the mapping; every
\* class is applied once; the first class that fails ends the call and the
\* classes after it are not touched; for None or an empty group there is no
\* remote operation at all.
C28_SystemSettingsFirstEachOnce ==
  gpc # "create" =>
    /\ \A k \in 1..Len(Modifies) :
         /\ Modifies[k].arg \in {properties_group.keys[i] : i \in 1..Len(properties_group.keys)}
         /\ Modifies[k].name = "ModifySystemSettings" <=> Modifies[k].arg = VSSD
         /\ Modifies[k].arg = VSSD => k = 1
         /\ \A j \in 1..Len(Modifies) : j # k => Modifies[j].arg # Modifies[k].arg
         /\ \A j \in 1..Len(Modifies) :
              (j < k /\ Modifies[j].arg # VSSD) => KeyIndex(Modifies[j].arg) < KeyIndex(Modifies[k].arg)
    /\ \A k \in 1..Len(GroupCalls) :
         GroupCalls[k].name = "traverse"
           => Cardinality({j \in 1..Len(GroupCalls) : GroupCalls[j] = GroupCalls[k]}) = 1
    /\ gpc = "returned"
         => /\ gexc = NoExc
            /\ Len(Modifies) = Len(properties_group.keys)
            /\ Len(GroupCalls) = 3 * Len(properties_group.keys)
    /\ (gpc = "raised" /\ Len(remote_calls) > CreateOps)
         => /\ gexc # NoExc
            /\ gidx \in 1..Len(items)
            /\ Len(Modifies) \in {gidx - 1, gidx}
            /\ \A k \in 1..Len(GroupCalls), i \in 1..Len(items) :
                 (GroupCalls[k].arg = items[i]) => i <= gidx
            /\ \A i \in 1..Len(items) :
                 i < gidx => \E k \in 1..Len(Modifies) : Modifies[k].arg = items[i]
            /\ (Len(Modifies) = gidx) => gexc.kind \in {"InvocationException", "JobException"}
    /\ ~truthy(properties_group)
         => /\ GroupCalls = <<>>
            /\ gpc # "apply"
            /\ gpc = "raised" => (entry = "create_machine" /\ ~defined)

\* The system settings came second in the mapping and were applied first.
C28_Witness ==
  /\ entry = "apply_properties_group"
  /\ gpc = "returned"
  /\ properties_group.keys = <<"Msvm_MemorySettingData", VSSD, "Msvm_ProcessorSettingData">>
  /\ Modifies = <<RemoteOp("ModifySystemSettings", VSSD),
                  RemoteOp("ModifyResourceSettings", "Msvm_MemorySettingData"),
                  RemoteOp("ModifyResourceSettings", "Msvm_ProcessorSettingData")>>

\* The second class failed and the third was never touched.
C28_WitnessStopped ==
  /\ entry = "apply_properties_group"
  /\ gpc = "raised"
  /\ Len(items) = 3
  /\ gidx = 2
  /\ Len(Modifies) = 2
  /\ Modifies[1].arg = VSSD

C28_WitnessEmpty ==
  /\ entry = "apply_properties_group"
  /\ gpc = "returned"
  /\ properties_group = DictGroup(<<>>)
  /\ remote_calls = <<>>

IsApplication(c) == c.name \in {"traverse", "ModifyResourceSettings", "ModifySystemSettings"}

\* C29: create_machine invokes DefineSystem before it applies any property;
\* when the application of the group fails after DefineSystem succeeded, the
\* exception leaves create_machine and the machine stays defined: nothing is
\* destroyed or rolled back.
C29_DefineFirstNoRollback ==
  entry = "create_machine" =>
    /\ remote_calls # <<>>
         => /\ Len(remote_calls) >= CreateOps
            /\ remote_calls[CreateOps].name = "DefineSystem"
    /\ \A k \in 1..Len(remote_calls) :
         /\ IsApplication(remote_calls[k]) => (k > CreateOps /\ defined)
         /\ remote_calls[k].name = "DefineSystem" <=> k = CreateOps
         /\ remote_calls[k].name # "DestroySystem"
    /\ Len(remote_calls) > CreateOps => defined
    /\ gpc \in {"group", "apply", "returned"} => defined
    /\ (gpc = "raised" /\ Len(remote_calls) > CreateOps)
         => /\ defined
            /\ gexc # NoExc
            /\ gexc.kind \in {"KeyError", "IndexError", "InvocationException", "JobException"}
    /\ (gpc = "raised" /\ Len(remote_calls) = CreateOps)
         => /\ ~defined
            /\ gexc.kind \in {"InvocationException", "JobException"}

\* The machine was defined, its system settings were applied, and the memory
\* settings failed in a job: the machine is still there.
C29_Witness ==
  /\ entry = "create_machine"
  /\ gpc = "raised"
  /\ defined
  /\ gexc.kind = "JobException"
  /\ Len(Modifies) = 2
  /\ remote_calls[Len(remote_calls)] = RemoteOp("ModifyResourceSettings", "Msvm_MemorySettingData")

====
